---- MODULE Spec2Model ----
(***************************************************************************)
(* Deposit verification engine of dp-verfied-oracle-server.                *)
(*                                                                         *)
(* Part 1: arithmetic.  JavaScript numbers are IEEE-754 binary64; the code *)
(* compares amounts with parseFloat, Math.abs, -, / and *.  TLC integers   *)
(* are 32 bit, so naturals of arbitrary size are sequences of 15-bit limbs, *)
(* least significant limb first, without leading zero limbs, and a         *)
(* double is a 53-bit significand with a binary exponent, rounded to       *)
(* nearest, ties to even.  Exponent overflow and subnormals are out of     *)
(* range of every amount used here and are not modelled.                   *)
(***************************************************************************)
EXTENDS Integers, Sequences, FiniteSets, TLC

\* ------------------------------------------------------------------ naturals
RECURSIVE Pow2(_)
Pow2(k) == IF k = 0 THEN 1 ELSE 2 * Pow2(k - 1)

RECURSIVE BNorm(_)
BNorm(b) ==
  IF b = <<>> THEN <<>>
  ELSE IF b[Len(b)] = 0 THEN BNorm(SubSeq(b, 1, Len(b) - 1)) ELSE b

RECURSIVE BFromNat(_)
BFromNat(n) == IF n = 0 THEN <<>> ELSE <<n % 32768>> \o BFromNat(n \div 32768)

BLimb(b, i) == IF i <= Len(b) THEN b[i] ELSE 0

RECURSIVE BCmpFrom(_, _, _)
BCmpFrom(a, b, i) ==
  IF i = 0 THEN 0
  ELSE IF a[i] > b[i] THEN 1
  ELSE IF a[i] < b[i] THEN -1
  ELSE BCmpFrom(a, b, i - 1)

\* -1, 0 or 1 as a < b, a = b, a > b (both normalised)
BCmp(a, b) ==
  IF Len(a) > Len(b) THEN 1
  ELSE IF Len(a) < Len(b) THEN -1
  ELSE BCmpFrom(a, b, Len(a))

RECURSIVE BAddFrom(_, _, _, _)
BAddFrom(a, b, i, carry) ==
  IF i > Len(a) /\ i > Len(b)
  THEN (IF carry = 1 THEN <<1>> ELSE <<>>)
  ELSE LET s == BLimb(a, i) + BLimb(b, i) + carry
       IN  <<s % 32768>> \o BAddFrom(a, b, i + 1, s \div 32768)

BAdd(a, b) == BAddFrom(a, b, 1, 0)

RECURSIVE BSubFrom(_, _, _, _)
BSubFrom(a, b, i, borrow) ==
  IF i > Len(a) THEN <<>>
  ELSE LET s == a[i] - BLimb(b, i) - borrow
       IN  IF s >= 0 THEN <<s>> \o BSubFrom(a, b, i + 1, 0)
           ELSE <<s + 32768>> \o BSubFrom(a, b, i + 1, 1)

\* a - b for a >= b
BSub(a, b) == BNorm(BSubFrom(a, b, 1, 0))

RECURSIVE BMulSmallFrom(_, _, _, _)
BMulSmallFrom(a, k, i, carry) ==
  IF i > Len(a) THEN (IF carry = 0 THEN <<>> ELSE <<carry>>)
  ELSE LET p == a[i] * k + carry
       IN  <<p % 32768>> \o BMulSmallFrom(a, k, i + 1, p \div 32768)

\* a * k for 0 <= k < 32768
BMulSmall(a, k) == IF k = 0 THEN <<>> ELSE BMulSmallFrom(a, k, 1, 0)

BShlLimbs(a, n) == IF a = <<>> THEN <<>> ELSE [i \in 1..n |-> 0] \o a

RECURSIVE BMulFrom(_, _, _)
BMulFrom(a, b, i) ==
  IF i > Len(b) THEN <<>>
  ELSE BAdd(BShlLimbs(BMulSmall(a, b[i]), i - 1), BMulFrom(a, b, i + 1))

BMul(a, b) == IF a = <<>> \/ b = <<>> THEN <<>> ELSE BMulFrom(a, b, 1)

\* 10^k, by halves to keep the recursion shallow
RECURSIVE BPow10(_)
BPow10(k) ==
  IF k = 0 THEN <<1>>
  ELSE IF k = 1 THEN <<10>>
  ELSE BMul(BPow10(k \div 2), BPow10(k - (k \div 2)))

\* decimal digits, most significant first
RECURSIVE BFromDigits(_)
BFromDigits(ds) ==
  IF ds = <<>> THEN <<>>
  ELSE IF Len(ds) = 1 THEN BFromNat(ds[1])
  ELSE LET h == Len(ds) \div 2
       IN  BAdd(BMul(BFromDigits(SubSeq(ds, 1, h)), BPow10(Len(ds) - h)),
                BFromDigits(SubSeq(ds, h + 1, Len(ds))))

RECURSIVE BitLenSmall(_)
BitLenSmall(n) == IF n = 0 THEN 0 ELSE 1 + BitLenSmall(n \div 2)

\* number of significant bits
BitLen(a) ==
  IF a = <<>> THEN 0 ELSE 15 * (Len(a) - 1) + BitLenSmall(a[Len(a)])

\* bit i of a, bit 0 the least significant
BTestBit(a, i) == (BLimb(a, (i \div 15) + 1) \div Pow2(i % 15)) % 2

\* a * 2^k
BShl(a, k) == BShlLimbs(BMulSmall(a, Pow2(k % 15)), k \div 15)

\* a \div 2^k
BShr(a, k) ==
  LET kd == k \div 15
      r  == k % 15
  IN  IF kd >= Len(a) THEN <<>>
      ELSE BNorm([i \in 1..(Len(a) - kd) |->
                   (a[i + kd] \div Pow2(r))
                   + (BLimb(a, i + kd + 1) % Pow2(r)) * Pow2(15 - r)])

\* a % 2^k
BLow(a, k) ==
  LET kd == k \div 15
      r  == k % 15
  IN  IF kd >= Len(a) THEN a
      ELSE BNorm([i \in 1..(kd + 1) |->
                   IF i <= kd THEN a[i] ELSE a[i] % Pow2(r)])

\* one step of binary long division: bring down bit i of n
BDivStep(n, d, i, st) ==
  LET r2 == BAdd(BAdd(st.r, st.r), BFromNat(BTestBit(n, i)))
      q2 == BAdd(st.q, st.q)
  IN  IF BCmp(r2, d) >= 0
      THEN [q |-> BAdd(q2, <<1>>), r |-> BSub(r2, d)]
      ELSE [q |-> q2, r |-> r2]

\* The steps for bits hi down to lo, split in halves to keep the recursion
\* shallow.  The remainder stays below d; testing it evaluates the upper half
\* before the lower half starts.
RECURSIVE BDivRange(_, _, _, _, _)
BDivRange(n, d, hi, lo, st) ==
  IF hi < lo THEN st
  ELSE IF hi = lo THEN BDivStep(n, d, hi, st)
  ELSE LET mid   == (hi + lo + 1) \div 2
           upper == BDivRange(n, d, hi, mid, st)
       IN  IF BCmp(upper.r, d) < 0
           THEN BDivRange(n, d, mid - 1, lo, upper)
           ELSE upper

\* quotient and remainder of n by d, d # 0
BDivMod(n, d) == BDivRange(n, d, BitLen(n) - 1, 0, [q |-> <<>>, r |-> <<>>])

\* ------------------------------------------------------------------- doubles
\* A double: k is "fin", "inf" or "nan"; a finite nonzero value is
\* (-1)^neg * m * 2^e with m of exactly 53 bits, and zero has m = <<>>.
DZero == [k |-> "fin", neg |-> FALSE, m |-> <<>>, e |-> 0]

DNaN == [k |-> "nan", neg |-> FALSE, m |-> <<>>, e |-> 0]

DInf(neg) == [k |-> "inf", neg |-> neg, m |-> <<>>, e |-> 0]

MantBits == 53

\* (q + f) * 2^e0 rounded to nearest, ties to even, where 0 < f < 1 iff
\* sticky; q # 0, and q has more than MantBits + 1 bits when sticky.
DRound(q, sticky, e0, neg) ==
  IF BitLen(q) <= MantBits
  THEN [k |-> "fin", neg |-> neg, m |-> BShl(q, MantBits - BitLen(q)),
        e |-> e0 - (MantBits - BitLen(q))]
  ELSE LET t    == BitLen(q) - MantBits
           kept == BShr(q, t)
           c    == BCmp(BLow(q, t), BShl(<<1>>, t - 1))
           up   == c = 1 \/ (c = 0 /\ (sticky \/ BTestBit(kept, 0) = 1))
           m1   == IF up THEN BAdd(kept, <<1>>) ELSE kept
       IN  IF BitLen(m1) > MantBits
           THEN [k |-> "fin", neg |-> neg, m |-> BShr(m1, 1), e |-> e0 + t + 1]
           ELSE [k |-> "fin", neg |-> neg, m |-> m1, e |-> e0 + t]

\* (n / d) * 2^e0 correctly rounded, d # 0
DRatio(n, d, e0, neg) ==
  IF n = <<>> THEN DZero
  ELSE LET need == MantBits + 2 + BitLen(d) - BitLen(n)
           s    == IF need > 0 THEN need ELSE 0
           qr   == BDivMod(BShl(n, s), d)
       IN  DRound(qr.q, qr.r # <<>>, e0 - s, neg)

DFromNat(n) == IF n = 0 THEN DZero ELSE DRound(BFromNat(n), FALSE, 0, FALSE)

\* Math.abs
DAbs(x) == [x EXCEPT !.neg = FALSE]

\* x - y
DSub(x, y) ==
  IF x.k = "nan" \/ y.k = "nan" THEN DNaN
  ELSE IF x.k = "inf" THEN (IF y.k = "inf" /\ y.neg = x.neg THEN DNaN ELSE x)
  ELSE IF y.k = "inf" THEN DInf(~y.neg)
  ELSE LET emin == IF x.e < y.e THEN x.e ELSE y.e
           X    == BShl(x.m, x.e - emin)
           Y    == BShl(y.m, y.e - emin)
           c    == BCmp(X, Y)
       IN  IF x.neg # y.neg
           THEN (IF BAdd(X, Y) = <<>> THEN DZero
                 ELSE DRound(BAdd(X, Y), FALSE, emin, x.neg))
           ELSE IF c = 0 THEN DZero
           ELSE IF c = 1 THEN DRound(BSub(X, Y), FALSE, emin, x.neg)
           ELSE DRound(BSub(Y, X), FALSE, emin, ~x.neg)

\* x * y
DMul(x, y) ==
  IF x.k = "nan" \/ y.k = "nan" THEN DNaN
  ELSE IF x.k = "inf" \/ y.k = "inf"
  THEN (IF (x.k = "fin" /\ x.m = <<>>) \/ (y.k = "fin" /\ y.m = <<>>)
        THEN DNaN ELSE DInf(x.neg # y.neg))
  ELSE IF x.m = <<>> \/ y.m = <<>> THEN DZero
  ELSE DRound(BMul(x.m, y.m), FALSE, x.e + y.e, x.neg # y.neg)

\* x / y
DDiv(x, y) ==
  IF x.k = "nan" \/ y.k = "nan" THEN DNaN
  ELSE IF x.k = "inf" THEN (IF y.k = "inf" THEN DNaN ELSE DInf(x.neg # y.neg))
  ELSE IF y.k = "inf" THEN DZero
  ELSE IF y.m = <<>> THEN (IF x.m = <<>> THEN DNaN ELSE DInf(x.neg # y.neg))
  ELSE DRatio(x.m, y.m, x.e - y.e, x.neg # y.neg)

\* x > y; false when either is NaN
DGt(x, y) ==
  LET d == DSub(x, y)
  IN  d.k # "nan" /\ ~d.neg /\ (d.k = "inf" \/ d.m # <<>>)

\* A decimal string "-ii.ff": sign, integer digits and fraction digits,
\* most significant first.
Dec(neg, int, frac) == [neg |-> neg, int |-> int, frac |-> frac]

\* parseFloat of a well-formed decimal string: the nearest double
parseFloat(str) ==
  DRatio(BFromDigits(str.int \o str.frac), BPow10(Len(str.frac)), 0, str.neg)


\* ------------------------------------------------------------ the data model
\* DepositStatus
PENDING == "pending"

VERIFYING == "verifying"

CONFIRMED == "confirmed"

REJECTED == "rejected"

FAILED == "failed"

DepositStatus == {PENDING, VERIFYING, CONFIRMED, REJECTED, FAILED}

Terminal == {CONFIRMED, REJECTED, FAILED}

\* NetworkType
ETHEREUM == 0

BSC == 1

SOLANA == 2

TON == 3

\* amountTolerancePercentage of DepositVerificationService
amountTolerancePercentage == 2

\* the strings used as amounts
S0 == Dec(FALSE, <<0>>, <<>>)

S1 == Dec(FALSE, <<1>>, <<>>)

S100 == Dec(FALSE, <<1, 0, 0>>, <<>>)

S97_9 == Dec(FALSE, <<9, 7>>, <<9>>)

S99 == Dec(FALSE, <<9, 9>>, <<>>)

\* 100 * 10^18 in minor units
S100e18 == Dec(FALSE, <<1, 0, 0>> \o [i \in 1..18 |-> 0], <<>>)

\* the length of the string
StrLen(str) ==
  (IF str.neg THEN 1 ELSE 0) + Len(str.int)
  + (IF str.frac = <<>> THEN 0 ELSE 1 + Len(str.frac))

RECURSIVE TrimZeros(_)
TrimZeros(ds) ==
  IF ds = <<>> THEN <<>>
  ELSE IF ds[Len(ds)] = 0 THEN TrimZeros(SubSeq(ds, 1, Len(ds) - 1)) ELSE ds

RECURSIVE TrimLeadingZeros(_)
TrimLeadingZeros(ds) ==
  IF Len(ds) <= 1 THEN ds
  ELSE IF ds[1] = 0 THEN TrimLeadingZeros(Tail(ds)) ELSE ds

\* calculateTokenAmount: the BigInt value / 10^decimals as a decimal string;
\* BigInt() throws on a string with a fraction and the catch returns it as is
calculateTokenAmount(value, decimals) ==
  IF value.frac # <<>> THEN value
  ELSE LET ds    == TrimLeadingZeros(value.int)
           n     == Len(ds)
           major == IF n > decimals THEN SubSeq(ds, 1, n - decimals) ELSE <<0>>
           rem   == IF n > decimals THEN SubSeq(ds, n - decimals + 1, n)
                    ELSE [i \in 1..(decimals - n) |-> 0] \o ds
       IN  Dec(value.neg /\ ds # <<0>>, major, TrimZeros(rem))


\* ------------------------------------------------------------- the bounds
\* deposits ever created
MaxDeposits == 2

\* the clock stops here
MaxTime == 1

\* verifyDeposit calls ever started
MaxCalls == 2

\* --------------------------------------------------------- the input sets
Users == {"u1", "u2"}

Hashes == {"h1", "h2"}

Procs == {"p1", "p2"}


\* a hash no network accepts
BadHash == "bad"
NoHash == "none"

NoTime == -1

\* amounts a request may claim
ClaimedAmounts == {S100}

\* networks of the requests
VerifyNetworks == {ETHEREUM}

\* statuses a create request may carry in its body
RequestStatuses == {PENDING, CONFIRMED}

\* getDepositAddressForNetwork
getDepositAddressForNetwork(network) ==
  CASE network = ETHEREUM -> "0x4B56723cF326a1f922E3F83e5D3bD9114608Bd05"
    [] network = BSC      -> "0xa084c81b62ea7210b8229bfc41f6cfdb9825258a"
    [] network = SOLANA   -> "79WBQcB4yHboe7zxy3m2Xax2zauehTm1tE1xCxw77777"
    [] network = TON      -> "UQA4P3jvl_SKKFHlNMICwqNJEGdPwDpR8LUEwKg_Z-MDI2Ei"
    [] OTHER              -> ""

\* a token transfer of a transaction, as the adapters report it: its value,
\* the decimals of its token and its recipient
Transfer(value, decimals, to) == [value |-> value, decimals |-> decimals, to |-> to]

\* What the chain holds for a hash: its block time (NoTime when the response
\* carries none), its token transfers, and its native value in minor units.
Tx(ts, transfers, native) == [ts |-> ts, transfers |-> transfers, native |-> native]

\* a transfer of 100 tokens of 18 decimals and one of 97.9 display units, both
\* in the first block and to the deposit address
Txs ==
  {Tx(0, <<Transfer(S100e18, 18, getDepositAddressForNetwork(ETHEREUM))>>, S0),
   Tx(0, <<Transfer(S97_9, 0, getDepositAddressForNetwork(ETHEREUM))>>, S0)}

VARIABLES
  deposits,              \* the Deposit collection, in insertion order
  now,                   \* the clock, Date.now()
  chain,                 \* the transaction of each hash, as the providers see it
  calls,                 \* the verifyDeposit calls in flight, by worker
  callCount,             \* verifyDeposit calls started
  audit,                 \* per deposit: the operation that last resolved it
  trail,                 \* the verifyDeposit call that completed last, until something else runs
  resolved,              \* hashes some verification has resolved
  queries,               \* provider queries: by whom, for a resolved hash or not
  verifiedTransactions,  \* the cache of transactionVerificationService, by hash
  jobs,                  \* per deposit: its background startVerificationProcess
  config,                \* process.env: NODE_ENV and SKIP_BLOCKCHAIN_VERIFICATION
  check,                 \* the amount check alone: its arguments and its verdict
  forced,                \* hashes set by setTransactionVerificationStatus(h, true)
  response,              \* what the last submit or test-verify request answered
  probe,                 \* the verifyTransaction call of a test-verify request in flight
  fmt,                   \* the format check alone: its arguments and its result
  ton,                   \* the TON lookup alone: the transactions, the hash asked for, the match
  explorer,              \* the getExplorerUrl calls made, with what each returned
  endpoint               \* the TON client selection alone: the loop over the endpoints

vars == <<deposits, now, chain, calls, callCount, audit, trail, resolved, queries,
          verifiedTransactions, jobs, config, check, forced, response, probe, fmt,
          ton, explorer, endpoint>>

\* ------------------------------------------------------------ verifyDeposit
\* new DepositModel({...}) of depositVerificationService.createDepositRequest
NewDeposit(userId, amount, network, status, t) ==
  [userId                |-> userId,
   network               |-> network,
   depositAmount         |-> amount,
   status                |-> status,
   transactionHash       |-> NoHash,
   depositAddress        |-> getDepositAddressForNetwork(network),
   requestTimestamp      |-> t,
   verificationTimestamp |-> NoTime,
   platformTokenAmount   |-> S0]

\* DepositModel.findOne({userId, network, depositAmount, status: PENDING}):
\* the first match in natural order, 0 when there is none
MatchingPending(ds, userId, network, amount) ==
  {i \in 1..Len(ds) : /\ ds[i].userId = userId
                      /\ ds[i].network = network
                      /\ ds[i].depositAmount = amount
                      /\ ds[i].status = PENDING}

\* the status left out of the filter
findOneAnyStatus(ds, userId, network, amount) ==
  LET m == {i \in 1..Len(ds) : /\ ds[i].userId = userId
                                /\ ds[i].network = network
                                /\ ds[i].depositAmount = amount}
  IN  IF m = {} THEN 0 ELSE CHOOSE i \in m : \A j \in m : i <= j

findOnePending(ds, userId, network, amount) ==
  LET m == MatchingPending(ds, userId, network, amount)
  IN  IF m = {} THEN 0 ELSE CHOOSE i \in m : \A j \in m : i <= j

\* the amount verifyDeposit reads from the transaction details
transferredAmount(network, tx) ==
  IF tx.transfers = <<>> THEN S0
  ELSE IF network = ETHEREUM \/ network = BSC
  THEN (IF StrLen(tx.transfers[1].value) > 18
        THEN calculateTokenAmount(tx.transfers[1].value, 18)
        ELSE tx.transfers[1].value)
  ELSE tx.transfers[1].value

\* difference > this.amountTolerancePercentage, in doubles
differenceExceeds(amount, transferred) ==
  LET expectedAmount == parseFloat(amount)
      actualAmount   == parseFloat(transferred)
      difference     == DMul(DDiv(DAbs(DSub(expectedAmount, actualAmount)),
                                  expectedAmount),
                             DFromNat(100))
  IN  DGt(difference, DFromNat(amountTolerancePercentage))

\* the temporal check left out
timestampBeforeSkipped(txTimestamp, requestTimestamp) == FALSE

\* txTimestamp < requestTimestamp; new Date(undefined) is an Invalid Date,
\* whose comparison with any date is false
timestampBefore(txTimestamp, requestTimestamp) ==
  txTimestamp # NoTime /\ txTimestamp < requestTimestamp

\* data.block_timestamp of the adapter's result at time t: Moralis' field as it
\* is, and for Solana the blockTime or, without one, new Date()
blockTimestamp(network, tx, t) ==
  IF network = SOLANA /\ tx.ts = NoTime THEN t ELSE tx.ts


\* 100 tokens in the minor units of a token of 6 decimals
S100e6 == Dec(FALSE, <<1, 0, 0, 0, 0, 0, 0, 0, 0>>, <<>>)

\* an address that is no deposit address
OtherAddress == "0x000000000000000000000000000000000000dEaD"

\* transactions whose details matter: 100 tokens of 18 or of 6 decimals to the
\* deposit address, 100 tokens to another address, 100 tokens in a response
\* without block time; on Solana 100 tokens of 6 decimals, and 100 tokens of
\* no decimals in a response without block time
DetailTxs ==
  {Tx(0, <<Transfer(S100e18, 18, getDepositAddressForNetwork(ETHEREUM))>>, S0),
   Tx(0, <<Transfer(S100e6, 6, getDepositAddressForNetwork(ETHEREUM))>>, S0),
   Tx(0, <<Transfer(S100e18, 18, OtherAddress)>>, S0),
   Tx(NoTime, <<Transfer(S100e18, 18, getDepositAddressForNetwork(ETHEREUM))>>, S0),
   Tx(0, <<Transfer(S100e6, 6, getDepositAddressForNetwork(SOLANA))>>, S0),
   Tx(NoTime, <<Transfer(S100, 0, getDepositAddressForNetwork(SOLANA))>>, S0)}

\* Every amount verifyDeposit can read from a transaction of the model
AllTransferred ==
  {transferredAmount(n, tx) : n \in {ETHEREUM, BSC, SOLANA, TON},
                              tx \in Txs \cup DetailTxs}

\* differenceExceeds over the amounts of the model, evaluated once
MismatchTable ==
  [c \in ClaimedAmounts |-> [a \in AllTransferred |-> differenceExceeds(c, a)]]

amountMismatch(amount, transferred) == MismatchTable[amount][transferred]

\* transferredAmount over the networks and the transactions of the model,
\* evaluated once
TransferredTable ==
  [n \in {ETHEREUM, BSC, SOLANA, TON} |->
     [tx \in Txs \cup DetailTxs |-> transferredAmount(n, tx)]]

amountTransferred(network, tx) == TransferredTable[network][tx]

NoCheck == [claimed |-> S0, actual |-> S0, verdict |-> "none"]

\* no request answered yet
NoResponse ==
  [op |-> "none", hash |-> NoHash, network |-> ETHEREUM, code |-> 0,
   verified |-> FALSE]

\* no test-verify request in flight
NoProbe == [pc |-> "idle", hash |-> NoHash, network |-> ETHEREUM]

\* no TON lookup made
NoTon ==
  [txs |-> <<>>, targetHash |-> <<>>, form |-> "none", wanted |-> 0,
   done |-> FALSE, match |-> 0]

\* getTransactionForTon before its loop: client is undefined (0), no endpoint
\* was probed, nothing was fetched
NoEndpoint ==
  [pc |-> "idle", addressValid |-> TRUE, discovery |-> TRUE,
   up |-> <<TRUE, TRUE, TRUE, TRUE>>, next |-> 1, client |-> 0, probed |-> {},
   fetched |-> 0, result |-> "none"]

\* no format check made
NoFmt ==
  [txHash |-> <<>>, prev |-> <<>>, network |-> ETHEREUM, development |-> FALSE,
   checked |-> FALSE, valid |-> FALSE, edits |-> 0]

NoTx == [ts |-> NoTime, transfers |-> <<>>, native |-> S0]

NoResult == [success |-> FALSE, message |-> ""]

IdleCall ==
  [pc |-> "idle", userId |-> "", hash |-> NoHash, network |-> ETHEREUM,
   amount |-> S0, dep |-> 0, reqTs |-> NoTime, known |-> FALSE, reply |-> "",
   tx |-> NoTx, value |-> S0, decided |-> "", vts |-> NoTime,
   result |-> NoResult]

NoAudit ==
  [by |-> "none", status |-> "", hash |-> NoHash, retrieved |-> FALSE,
   txTs |-> NoTime, claimed |-> S0, actual |-> S0]

\* the workers are interchangeable: a new call takes the first free one
Rank(p) == IF p = "p1" THEN 1 ELSE 2

InFlight(p) == calls[p].pc \in {"fetch", "save"}

OthersInFlight(p) == \E q \in Procs \ {p} : InFlight(q)

\* what a completed verifyDeposit call leaves on the trail: its arguments, its
\* number, the deposit it worked on and what it returned
Summary(c, success, status, message) ==
  [n |-> callCount, userId |-> c.userId, hash |-> c.hash, network |-> c.network,
   amount |-> c.amount, dep |-> c.dep, success |-> success, status |-> status,
   message |-> message, alone |-> TRUE]

\* the trail after worker p completed a call: the call, and whether no other
\* call was in flight
Completed(p, sum) == <<[sum EXCEPT !.alone = ~OthersInFlight(p)]>>

\* the clock advances
Tick ==
  /\ now < MaxTime
  /\ now' = now + 1
  /\ UNCHANGED <<deposits, chain, calls, callCount, audit, trail, resolved, queries, verifiedTransactions, jobs, config, check, forced, response, probe, fmt, ton, explorer, endpoint>>

\* POST /deposit/create: the controller passes the status of the request body
\* on, and the service stores it
CreateDepositRequest(userId, amount, network, status) ==
  /\ Len(deposits) < MaxDeposits
  /\ deposits' = Append(deposits, NewDeposit(userId, amount, network, status, now))
  /\ audit' = Append(audit,
                IF status \in Terminal
                THEN [NoAudit EXCEPT !.by = "createDepositRequest", !.status = status,
                                     !.claimed = amount]
                ELSE NoAudit)
  /\ trail' = <<>>
  /\ UNCHANGED <<now, chain, calls, callCount, resolved, queries, verifiedTransactions, jobs, config, check, forced, response, probe, fmt, ton, explorer, endpoint>>

\* updateDepositWithTransaction(depositId, transactionHash)
UpdateDepositWithTransaction(d, h) ==
  /\ d \in 1..Len(deposits)
  /\ deposits' = [deposits EXCEPT ![d].transactionHash = h, ![d].status = VERIFYING]
  /\ trail' = <<>>
  /\ UNCHANGED <<now, chain, calls, callCount, audit, resolved, queries, verifiedTransactions, jobs, config, check, forced, response, probe, fmt, ton, explorer, endpoint>>

\* verifyDeposit up to the provider call: findOne returns, and with a match
\* the transaction is requested from the provider
VerifyDepositFind(p, userId, h, network, amount) ==
  /\ calls[p].pc = "idle"
  /\ \A q \in Procs : calls[q].pc = "idle" => Rank(p) <= Rank(q)
  /\ callCount < MaxCalls
  /\ callCount' = callCount + 1
  /\ LET d == findOnePending(deposits, userId, network, amount)
         c == [IdleCall EXCEPT !.userId = userId, !.hash = h, !.network = network,
                               !.amount = amount, !.dep = d,
                               !.known = (h \in resolved)]
     IN  IF d = 0
         THEN /\ calls' = [calls EXCEPT ![p] = IdleCall]
              /\ trail' = Completed(p, Summary(c, FALSE, "",
                                               "No matching deposit request found"))
              /\ queries' = queries
         ELSE /\ calls' = [calls EXCEPT ![p] =
                    [c EXCEPT !.pc = "fetch",
                              !.reqTs = deposits[d].requestTimestamp]]
              /\ trail' = IF OthersInFlight(p) THEN <<>> ELSE trail
              /\ queries' = queries \cup {[by |-> "verifyDeposit", known |-> c.known]}
  /\ UNCHANGED <<deposits, now, chain, audit, resolved, verifiedTransactions, jobs, config, check, forced, response, probe, fmt, ton, explorer, endpoint>>

\* what a provider can answer for hash h now: a transaction is seen once its
\* block exists; a lookup can also miss or fail, and an exception can escape
\* into verifyDeposit's try block.  getTransactionForTon formats the block
\* time with toISOString(), which throws without one
ProviderReplies(h, network) ==
  {"notfound", "error", "throw"}
    \cup (IF chain[h].ts <= now /\ ~(network = TON /\ chain[h].ts = NoTime)
          THEN {"ok"} ELSE {})

\* verifyDeposit from the provider's answer to the save: the checks run on the
\* document read earlier, and the changed fields are handed to save()
VerifyDepositFetch(p, reply) ==
  /\ calls[p].pc = "fetch"
  /\ reply \in ProviderReplies(calls[p].hash, calls[p].network)
  /\ LET c  == calls[p]
         tx == chain[c.hash]
         v  == amountTransferred(c.network, tx)
     IN  IF reply = "throw"
         THEN /\ calls' = [calls EXCEPT ![p] = IdleCall]
              /\ trail' = Completed(p, Summary(c, FALSE, "",
                                               "Error verifying deposit"))
         ELSE IF reply # "ok"
         THEN /\ calls' = [calls EXCEPT ![p] = IdleCall]
              /\ trail' = Completed(p, Summary(c, FALSE, "",
                                               "Failed to retrieve transaction details"))
         ELSE /\ calls' = [calls EXCEPT ![p] =
                    IF timestampBefore(blockTimestamp(c.network, tx, now), c.reqTs)
                    THEN [c EXCEPT !.pc = "save", !.reply = reply, !.tx = tx,
                                   !.decided = REJECTED,
                                   !.result = [success |-> FALSE,
                                               message |-> "Transaction occurred before deposit request"]]
                    ELSE IF amountMismatch(c.amount, v)
                    THEN [c EXCEPT !.pc = "save", !.reply = reply, !.tx = tx,
                                   !.value = v, !.decided = REJECTED,
                                   !.result = [success |-> FALSE,
                                               message |-> "Transaction amount does not match deposit request"]]
                    ELSE [c EXCEPT !.pc = "save", !.reply = reply, !.tx = tx,
                                   !.value = v, !.decided = CONFIRMED, !.vts = now,
                                   !.result = [success |-> TRUE,
                                               message |-> "Deposit verified successfully"]]]
              /\ trail' = trail
  /\ UNCHANGED <<deposits, now, chain, callCount, audit, resolved, queries, verifiedTransactions, jobs, config, check, forced, response, probe, fmt, ton, explorer, endpoint>>

\* pendingDeposit.save(): the modified paths are written, whatever the stored
\* document holds by now, and the call returns
VerifyDepositSave(p) ==
  /\ calls[p].pc = "save"
  /\ LET c == calls[p]
     IN  /\ deposits' = [deposits EXCEPT
                ![c.dep].status = c.decided,
                ![c.dep].transactionHash = c.hash,
                ![c.dep].verificationTimestamp =
                    IF c.decided = CONFIRMED THEN c.vts ELSE @]
         /\ calls' = [calls EXCEPT ![p] = IdleCall]
         /\ audit' = [audit EXCEPT ![c.dep] =
                [by |-> "verifyDeposit", status |-> c.decided, hash |-> c.hash,
                 retrieved |-> (c.reply = "ok"), txTs |-> chain[c.hash].ts,
                 claimed |-> deposits[c.dep].depositAmount,
                 actual |-> amountTransferred(deposits[c.dep].network, chain[c.hash])]]
         /\ trail' = Completed(p, Summary(c, c.result.success, c.decided,
                                          c.result.message))
         /\ resolved' = resolved \cup {c.hash}
  /\ UNCHANGED <<now, chain, callCount, queries, verifiedTransactions, jobs, config, check, forced, response, probe, fmt, ton, explorer, endpoint>>

Init ==
  /\ deposits = <<>>
  /\ now = 0
  /\ chain \in [Hashes -> Txs]
  /\ calls = [p \in Procs |-> IdleCall]
  /\ callCount = 0
  /\ audit = <<>>
  /\ trail = <<>>
  /\ resolved = {}
  /\ queries = {}
  /\ verifiedTransactions = [h \in Hashes \cup {BadHash} |-> "absent"]
  /\ jobs = <<>>
  /\ config = [development |-> FALSE, skip |-> FALSE]
  /\ check = NoCheck
  /\ forced = {}
  /\ response = NoResponse
  /\ probe = NoProbe
  /\ explorer = <<>>
  /\ endpoint = NoEndpoint
  /\ fmt = NoFmt
  /\ ton = NoTon

Next ==
  \/ Tick
  \/ \E u \in Users, a \in ClaimedAmounts, n \in VerifyNetworks, st \in RequestStatuses :
       CreateDepositRequest(u, a, n, st)
  \/ \E d \in 1..MaxDeposits, h \in Hashes : UpdateDepositWithTransaction(d, h)
  \/ \E p \in Procs, u \in Users, h \in Hashes, n \in VerifyNetworks, a \in ClaimedAmounts :
       VerifyDepositFind(p, u, h, n, a)
  \/ \E p \in Procs, reply \in {"ok", "notfound", "error", "throw"} :
       VerifyDepositFetch(p, reply)
  \/ \E p \in Procs : VerifyDepositSave(p)

Spec == Init /\ [][Next]_vars

\* one user's requests, every deposit requested as PENDING
NextFair ==
  \/ Tick
  \/ \E a \in ClaimedAmounts, n \in VerifyNetworks :
       CreateDepositRequest("u1", a, n, PENDING)
  \/ \E d \in 1..MaxDeposits : UpdateDepositWithTransaction(d, "h1")
  \/ \E p \in Procs, n \in VerifyNetworks, a \in ClaimedAmounts :
       VerifyDepositFind(p, "u1", "h1", n, a)
  \/ \E p \in Procs, reply \in {"ok", "notfound", "error", "throw"} :
       VerifyDepositFetch(p, reply)
  \/ \E p \in Procs : VerifyDepositSave(p)

\* the networks of the requests whose transaction details matter
DetailNetworks == {ETHEREUM, SOLANA, TON}

\* one user's requests for one hash, on these networks
NextDetails ==
  \/ Tick
  \/ \E a \in ClaimedAmounts, n \in DetailNetworks :
       CreateDepositRequest("u1", a, n, PENDING)
  \/ \E p \in Procs, n \in DetailNetworks, a \in ClaimedAmounts :
       VerifyDepositFind(p, "u1", "h1", n, a)
  \/ \E p \in Procs, reply \in {"ok", "notfound", "error", "throw"} :
       VerifyDepositFetch(p, reply)
  \/ \E p \in Procs : VerifyDepositSave(p)

InitDetails ==
  /\ deposits = <<>>
  /\ now = 0
  /\ \E tx \in DetailTxs : chain = [h \in Hashes |-> IF h = "h1" THEN tx ELSE NoTx]
  /\ calls = [p \in Procs |-> IdleCall]
  /\ callCount = 0
  /\ audit = <<>>
  /\ trail = <<>>
  /\ resolved = {}
  /\ queries = {}
  /\ verifiedTransactions = [h \in Hashes \cup {BadHash} |-> "absent"]
  /\ jobs = <<>>
  /\ config = [development |-> FALSE, skip |-> FALSE]
  /\ check = NoCheck
  /\ forced = {}
  /\ response = NoResponse
  /\ probe = NoProbe
  /\ fmt = NoFmt
  /\ ton = NoTon
  /\ explorer = <<>>
  /\ endpoint = NoEndpoint

SpecDetails == InitDetails /\ [][NextDetails]_vars

\* that program when every awaited provider call and every awaited store
\* write of a running verifyDeposit call returns; requests stay up to the
\* clients
SpecFair ==
  /\ Init
  /\ [][NextFair]_vars
  /\ WF_vars(\E p \in Procs, reply \in {"ok", "notfound", "error", "throw"} :
               VerifyDepositFetch(p, reply))
  /\ WF_vars(\E p \in Procs : VerifyDepositSave(p))


\* ------------------------------------------------------- the hash format
\* A hash is a sequence of characters. The characters of the model, in the
\* order of their code units
Characters ==
  <<"+", "-", "/",
    "0", "1", "2", "3", "4", "5", "6", "7", "8", "9",
    ":", "=", "@",
    "A", "B", "C", "D", "E", "F", "G", "H", "I", "J", "K", "L", "M", "N", "O", "P", "Q", "R", "S", "T", "U", "V", "W", "X", "Y", "Z",
    "[", "_",
    "a", "b", "c", "d", "e", "f", "g", "h", "i", "j", "k", "l", "m", "n", "o", "p", "q", "r", "s", "t", "u", "v", "w", "x", "y", "z",
    "{">>

CodeOf(c) == CHOOSE i \in 1..Len(Characters) : Characters[i] = c

\* the range a-b of a character class
CharRange(a, b) == {Characters[i] : i \in CodeOf(a)..CodeOf(b)}

\* one item of an anchored pattern: a class repeated min to max times
Item(class, min, max) == [class |-> class, min |-> min, max |-> max]

\* the pattern without the upper-case range
evmHashPatternLowerCase ==
  <<Item({"0"}, 1, 1), Item({"x"}, 1, 1),
    Item(CharRange("0", "9") \cup CharRange("a", "f"), 64, 64)>>

\* /^0x[0-9a-fA-F]{64}$/
evmHashPattern ==
  <<Item({"0"}, 1, 1), Item({"x"}, 1, 1),
    Item(CharRange("0", "9") \cup CharRange("a", "f") \cup CharRange("A", "F"),
         64, 64)>>

\* /^[1-9A-HJ-NP-Za-km-z]{43,44}$/
solanaHashPattern ==
  <<Item(CharRange("1", "9") \cup CharRange("A", "H") \cup CharRange("J", "N")
           \cup CharRange("P", "Z") \cup CharRange("a", "k") \cup CharRange("m", "z"),
         43, 44)>>

\* whether items k.. of the pattern match str from position pos to its end
RECURSIVE MatchFrom(_, _, _, _)
MatchFrom(pattern, str, k, pos) ==
  IF k > Len(pattern) THEN pos = Len(str) + 1
  ELSE \E n \in pattern[k].min..pattern[k].max :
         /\ pos + n - 1 <= Len(str)
         /\ \A i \in pos..(pos + n - 1) : str[i] \in pattern[k].class
         /\ MatchFrom(pattern, str, k + 1, pos + n)

\* RegExp.prototype.test for a pattern anchored at both ends
test(pattern, str) == MatchFrom(pattern, str, 1, 1)

\* isValidTransactionHash(txHash, network), with NODE_ENV === 'development'
\* as its third argument
isValidTransactionHash(txHash, network, development) ==
  IF development THEN txHash # <<>> /\ Len(txHash) > 10
  ELSE IF txHash = <<>> THEN FALSE
  ELSE IF network = ETHEREUM \/ network = BSC THEN test(evmHashPattern, txHash)
  ELSE IF network = SOLANA THEN test(solanaHashPattern, txHash)
  ELSE FALSE

\* the characters behind the hashes of the model: two transaction hashes of
\* an EVM network, and a string that is too short
HashText(h) ==
  IF h = "h1" THEN <<"0", "x">> \o [i \in 1..64 |-> "a"]
  ELSE IF h = "h2" THEN <<"0", "x">> \o [i \in 1..64 |-> "B"]
  ELSE <<"0", "x", "1", "2">>

\* isValidTransactionHash over the hashes of the model, evaluated once
FormatTable ==
  [h \in Hashes \cup {BadHash} |->
     [n \in {ETHEREUM, BSC, SOLANA, TON} |->
        [dv \in BOOLEAN |-> isValidTransactionHash(HashText(h), n, dv)]]]

\* the format check as the running process makes it
hashFormatValid(h, network) == FormatTable[h][network][config.development]


\* ------------------------------------- deposit.service and verifyTransaction
\* networks of the submitted transactions
SubmitNetworks == {ETHEREUM}

S50e18 == Dec(FALSE, <<5, 0>> \o [i \in 1..18 |-> 0], <<>>)

\* transactions behind the submitted hashes: a native transfer of 100 coins, a
\* token transfer that moves no native value, and a native transfer of 50 coins
SubmittedTxs ==
  {Tx(0, <<>>, S100e18),
   Tx(0, <<Transfer(S100e18, 18, getDepositAddressForNetwork(ETHEREUM))>>, S0),
   Tx(0, <<>>, S50e18)}

\* transactionUtils.hexToEther: Number(BigInt(hex)) / Math.pow(10, 18)
hexToEther(wei) ==
  DDiv(DRatio(BFromDigits(wei.int), <<1>>, 0, FALSE),
       DRatio(BPow10(18), <<1>>, 0, FALSE))

\* the amount check of verifyTransaction: skipped when the value is falsy,
\* else difference > tolerance with tolerance = 0.02
valueMismatch(amount, value) ==
  IF value.k = "nan" \/ (value.k = "fin" /\ value.m = <<>>) THEN FALSE
  ELSE LET expectedAmount == parseFloat(amount)
           tolerance      == parseFloat(Dec(FALSE, <<0>>, <<0, 2>>))
           difference     == DDiv(DAbs(DSub(expectedAmount, value)), expectedAmount)
       IN  DGt(difference, tolerance)

\* valueMismatch over the amounts of the model, evaluated once
ValueMismatchTable ==
  [c \in ClaimedAmounts \cup {S0} |->
     [tx \in SubmittedTxs |-> valueMismatch(c, hexToEther(tx.native))]]

\* what an adapter (verifyEthereumTransaction, verifyBscTransaction,
\* verifySolanaTransaction) hears from its provider
AdapterReplies == {"ok", "notfound", "pending", "failed", "error"}

\* the success flag of the adapter's result
adapterSuccess(reply, development) ==
  \/ reply = "ok"
  \/ (development /\ reply \in {"failed", "error"})

\* whether the adapter's result carries the transaction's value
adapterHasValue(reply, development) ==
  \/ reply = "ok"
  \/ (development /\ reply = "failed")

\* verifyTransaction after the adapter has returned: isValid
isValidAfter(reply, amount, tx, development) ==
  /\ adapterSuccess(reply, development)
  /\ ~(adapterHasValue(reply, development) /\ ValueMismatchTable[amount][tx])

NoJob == [pc |-> "start", reply |-> "", isVerified |-> FALSE]

\* the answer of a controller: its HTTP status and, for test-verify, the
\* verified flag
Answer(op, h, network, code, verified) ==
  [op |-> op, hash |-> h, network |-> network, code |-> code, verified |-> verified]

\* the format check of the controller left out
submitRejectsNothing(h, network) == FALSE

\* the format check of submitDepositTransaction, made before anything is stored
submitRejects(h, network) == ~hashFormatValid(h, network)

\* new DepositModel({...}) of deposit.service createDepositRequest
SubmittedDeposit(userId, h, amount, network, t) ==
  [NewDeposit(userId, amount, network, PENDING, t) EXCEPT
     !.transactionHash = h, !.depositAddress = ""]

\* submitDepositTransaction and createDepositRequest of deposit.service: the
\* deposit is stored and its verification starts in the background
SubmitDepositTransaction(userId, h, amount, network) ==
  /\ IF submitRejects(h, network)
     THEN /\ response' = Answer("submitDepositTransaction", h, network, 400, FALSE)
          /\ UNCHANGED <<deposits, jobs, audit>>
     ELSE /\ Len(deposits) < MaxDeposits
          /\ deposits' = Append(deposits,
                                SubmittedDeposit(userId, h, amount, network, now))
          /\ jobs' = Append(jobs, NoJob)
          /\ audit' = Append(audit, NoAudit)
          /\ response' = Answer("submitDepositTransaction", h, network, 201, FALSE)
  /\ UNCHANGED <<now, chain, calls, callCount, trail, resolved, queries,
                 verifiedTransactions, config, check, forced, probe, fmt, ton, explorer, endpoint>>

\* startVerificationProcess, first update
StartVerification(d) ==
  /\ d \in 1..Len(jobs)
  /\ jobs[d].pc = "start"
  /\ deposits' = [deposits EXCEPT ![d].status = VERIFYING]
  /\ jobs' = [jobs EXCEPT ![d].pc = "verify"]
  /\ UNCHANGED <<now, chain, calls, callCount, audit, trail, resolved, queries,
                 verifiedTransactions, config, check, forced, response, probe, fmt, ton, explorer, endpoint>>

\* verifyTransaction up to its first await: the cache, the format check, the
\* skip flag, and the request to the provider
CallVerifyTransaction(d) ==
  /\ d \in 1..Len(jobs)
  /\ jobs[d].pc = "verify"
  /\ LET h == deposits[d].transactionHash
     IN  IF verifiedTransactions[h] # "absent"
         THEN /\ jobs' = [jobs EXCEPT ![d] =
                    [pc |-> "write", reply |-> "cached",
                     isVerified |-> (verifiedTransactions[h] = "true")]]
              /\ UNCHANGED <<verifiedTransactions, queries, resolved>>
         ELSE IF ~hashFormatValid(h, deposits[d].network)
         THEN /\ jobs' = [jobs EXCEPT ![d] =
                    [pc |-> "write", reply |-> "format", isVerified |-> FALSE]]
              /\ verifiedTransactions' = [verifiedTransactions EXCEPT ![h] = "false"]
              /\ resolved' = resolved \cup {h}
              /\ queries' = queries
         ELSE IF config.skip
         THEN /\ jobs' = [jobs EXCEPT ![d] =
                    [pc |-> "write", reply |-> "skipped", isVerified |-> TRUE]]
              /\ verifiedTransactions' = [verifiedTransactions EXCEPT ![h] = "true"]
              /\ resolved' = resolved \cup {h}
              /\ queries' = queries
         ELSE /\ jobs' = [jobs EXCEPT ![d].pc = "reply"]
              /\ queries' = queries \cup
                   {[by |-> "verifyTransaction", known |-> (h \in resolved)]}
              /\ UNCHANGED <<verifiedTransactions, resolved>>
  /\ UNCHANGED <<deposits, now, chain, calls, callCount, audit, trail, config, check, forced, response, probe, fmt, ton, explorer, endpoint>>

\* verifyTransaction from the adapter's result to its return
ProviderReply(d, reply) ==
  /\ d \in 1..Len(jobs)
  /\ jobs[d].pc = "reply"
  /\ reply \in AdapterReplies
  /\ LET h  == deposits[d].transactionHash
         ok == isValidAfter(reply, deposits[d].depositAmount, chain[h],
                            config.development)
     IN  /\ jobs' = [jobs EXCEPT ![d] =
                [pc |-> "write", reply |-> reply, isVerified |-> ok]]
         /\ verifiedTransactions' =
                [verifiedTransactions EXCEPT ![h] = IF ok THEN "true" ELSE "false"]
         /\ resolved' = resolved \cup {h}
  /\ UNCHANGED <<deposits, now, chain, calls, callCount, audit, trail, queries, config, check, forced, response, probe, fmt, ton, explorer, endpoint>>

\* startVerificationProcess, last update
WriteOutcome(d) ==
  /\ d \in 1..Len(jobs)
  /\ jobs[d].pc = "write"
  /\ deposits' = [deposits EXCEPT ![d] =
        IF jobs[d].isVerified
        THEN [@ EXCEPT !.status = CONFIRMED,
                       !.platformTokenAmount = deposits[d].depositAmount,
                       !.verificationTimestamp = now]
        ELSE [@ EXCEPT !.status = FAILED]]
  /\ jobs' = [jobs EXCEPT ![d].pc = "done"]
  /\ audit' = [audit EXCEPT ![d] =
        [by |-> "startVerificationProcess",
         status |-> IF jobs[d].isVerified THEN CONFIRMED ELSE FAILED,
         hash |-> deposits[d].transactionHash,
         retrieved |-> (jobs[d].reply = "ok"),
         txTs |-> chain[deposits[d].transactionHash].ts,
         claimed |-> deposits[d].depositAmount,
         actual |-> calculateTokenAmount(chain[deposits[d].transactionHash].native, 18)]]
  /\ UNCHANGED <<now, chain, calls, callCount, trail, resolved, queries,
                 verifiedTransactions, config, check, forced, response, probe, fmt, ton, explorer, endpoint>>

InitSubmit ==
  /\ deposits = <<>>
  /\ now = 0
  /\ chain \in [Hashes -> SubmittedTxs]
  /\ calls = [p \in Procs |-> IdleCall]
  /\ callCount = 0
  /\ audit = <<>>
  /\ trail = <<>>
  /\ resolved = {}
  /\ queries = {}
  /\ verifiedTransactions = [h \in Hashes \cup {BadHash} |-> "absent"]
  /\ jobs = <<>>
  /\ config \in [development : BOOLEAN, skip : BOOLEAN]
  /\ check = NoCheck
  /\ forced = {}
  /\ response = NoResponse
  /\ probe = NoProbe
  /\ explorer = <<>>
  /\ endpoint = NoEndpoint
  /\ fmt = NoFmt
  /\ ton = NoTon

\* GET /deposit/test-verify/:network/:txHash up to the first await of
\* verifyTransaction: the format check, force=true, the cache and the skip flag
TestTransactionVerification(h, network, force) ==
  /\ probe.pc = "idle"
  /\ IF ~hashFormatValid(h, network)
     THEN /\ response' = Answer("testTransactionVerification", h, network, 400, FALSE)
          /\ UNCHANGED <<verifiedTransactions, forced, probe, queries, resolved>>
     ELSE LET cache == IF force THEN [verifiedTransactions EXCEPT ![h] = "true"]
                       ELSE verifiedTransactions
          IN  /\ forced' = IF force THEN forced \cup {h} ELSE forced
              /\ IF cache[h] # "absent"
                 THEN /\ verifiedTransactions' = cache
                      /\ response' = Answer("testTransactionVerification", h, network,
                                            200, cache[h] = "true")
                      /\ UNCHANGED <<probe, queries, resolved>>
                 ELSE IF config.skip
                 THEN /\ verifiedTransactions' = [cache EXCEPT ![h] = "true"]
                      /\ response' = Answer("testTransactionVerification", h, network,
                                            200, TRUE)
                      /\ resolved' = resolved \cup {h}
                      /\ UNCHANGED <<probe, queries>>
                 ELSE /\ probe' = [pc |-> "reply", hash |-> h, network |-> network]
                      /\ queries' = queries \cup
                           {[by |-> "verifyTransaction", known |-> (h \in resolved)]}
                      /\ UNCHANGED <<verifiedTransactions, response, resolved>>
  /\ UNCHANGED <<deposits, now, chain, calls, callCount, audit, trail, jobs, config,
                 check, fmt, ton, explorer, endpoint>>

\* verifyTransaction(txHash, "0", networkId) of the test route, from the
\* adapter's result to the answer
TestProviderReply(reply) ==
  /\ probe.pc = "reply"
  /\ reply \in AdapterReplies
  /\ LET ok == isValidAfter(reply, S0, chain[probe.hash], config.development)
     IN  /\ verifiedTransactions' =
                [verifiedTransactions EXCEPT ![probe.hash] = IF ok THEN "true" ELSE "false"]
         /\ response' = Answer("testTransactionVerification", probe.hash,
                               probe.network, 200, ok)
  /\ resolved' = resolved \cup {probe.hash}
  /\ probe' = NoProbe
  /\ UNCHANGED <<deposits, now, chain, calls, callCount, audit, trail, queries, jobs,
                 config, check, forced, fmt, ton, explorer, endpoint>>

NextSubmit ==
  \/ Tick
  \/ \E u \in Users, h \in Hashes, a \in ClaimedAmounts, n \in SubmitNetworks :
       SubmitDepositTransaction(u, h, a, n)
  \/ \E d \in 1..MaxDeposits : StartVerification(d)
  \/ \E d \in 1..MaxDeposits : CallVerifyTransaction(d)
  \/ \E d \in 1..MaxDeposits, reply \in AdapterReplies : ProviderReply(d, reply)
  \/ \E d \in 1..MaxDeposits : WriteOutcome(d)

SpecSubmit == InitSubmit /\ [][NextSubmit]_vars

\* one user's submissions, with a malformed hash among them, and the test
\* route
NextTest ==
  \/ \E h \in Hashes \cup {BadHash}, a \in ClaimedAmounts, n \in SubmitNetworks :
       SubmitDepositTransaction("u1", h, a, n)
  \/ \E d \in 1..MaxDeposits : StartVerification(d)
  \/ \E d \in 1..MaxDeposits : CallVerifyTransaction(d)
  \/ \E d \in 1..MaxDeposits, reply \in AdapterReplies : ProviderReply(d, reply)
  \/ \E d \in 1..MaxDeposits : WriteOutcome(d)
  \/ \E h \in Hashes \cup {BadHash}, n \in SubmitNetworks, force \in BOOLEAN :
       TestTransactionVerification(h, n, force)
  \/ \E reply \in AdapterReplies : TestProviderReply(reply)

\* h1 moved the 100 coins the submissions claim, h2 moved 50
InitTest ==
  /\ deposits = <<>>
  /\ now = 0
  /\ chain = [h \in Hashes |-> IF h = "h1" THEN Tx(0, <<>>, S100e18)
                                ELSE Tx(0, <<>>, S50e18)]
  /\ calls = [p \in Procs |-> IdleCall]
  /\ callCount = 0
  /\ audit = <<>>
  /\ trail = <<>>
  /\ resolved = {}
  /\ queries = {}
  /\ verifiedTransactions = [h \in Hashes \cup {BadHash} |-> "absent"]
  /\ jobs = <<>>
  /\ config \in [development : BOOLEAN, skip : BOOLEAN]
  /\ check = NoCheck
  /\ forced = {}
  /\ response = NoResponse
  /\ probe = NoProbe
  /\ explorer = <<>>
  /\ endpoint = NoEndpoint
  /\ fmt = NoFmt
  /\ ton = NoTon

SpecTest == InitTest /\ [][NextTest]_vars

\* the submissions and the test route while the provider answers every request
\* with the mined transaction, in production and without the skip flag
NextRecheck ==
  \/ \E h \in Hashes, a \in ClaimedAmounts, n \in SubmitNetworks :
       SubmitDepositTransaction("u1", h, a, n)
  \/ \E d \in 1..MaxDeposits : StartVerification(d)
  \/ \E d \in 1..MaxDeposits : CallVerifyTransaction(d)
  \/ \E d \in 1..MaxDeposits : ProviderReply(d, "ok")
  \/ \E d \in 1..MaxDeposits : WriteOutcome(d)
  \/ \E h \in Hashes, n \in SubmitNetworks : TestTransactionVerification(h, n, FALSE)
  \/ TestProviderReply("ok")

InitRecheck == InitTest /\ config = [development |-> FALSE, skip |-> FALSE]

SpecRecheck == InitRecheck /\ [][NextRecheck]_vars


\* -------------------------------------------------- the amount check alone
S102e16 == Dec(FALSE, <<1, 0, 2>> \o [i \in 1..16 |-> 0], <<>>)

\* claimed amounts
CheckClaimed ==
  {S100, S1, S0, Dec(FALSE, <<5, 0>>, <<>>), Dec(FALSE, <<0>>, <<5>>),
   Dec(FALSE, <<1, 0>>, <<>>), Dec(FALSE, <<2, 0, 0>>, <<>>),
   Dec(FALSE, <<3>>, <<>>), Dec(FALSE, <<0>>, <<1>>)}

\* transferred amounts, as verifyDeposit reads them
CheckActual ==
  {S100, S97_9, S99, calculateTokenAmount(S102e16, 18),
   Dec(FALSE, <<9, 8>>, <<>>), Dec(FALSE, <<1, 0, 2>>, <<>>),
   Dec(FALSE, <<1, 0, 2>>, <<1>>), Dec(FALSE, <<0>>, <<9, 8>>),
   Dec(FALSE, <<4, 9>>, <<>>), Dec(FALSE, <<5, 1>>, <<>>),
   Dec(FALSE, <<0>>, <<5, 1>>), Dec(FALSE, <<0>>, <<4, 9>>),
   Dec(FALSE, <<0>>, <<0, 9, 8>>)}

\* the amount check of verifyDeposit on the drawn arguments
CheckAmount ==
  /\ check.verdict = "none"
  /\ check' = [check EXCEPT !.verdict =
                 IF differenceExceeds(check.claimed, check.actual)
                 THEN REJECTED ELSE CONFIRMED]
  /\ UNCHANGED <<deposits, now, chain, calls, callCount, audit, trail, resolved,
                 queries, verifiedTransactions, jobs, config, forced, response, probe, fmt, ton, explorer, endpoint>>

InitAmount ==
  /\ deposits = <<>>
  /\ now = 0
  /\ chain = [h \in Hashes |-> NoTx]
  /\ calls = [p \in Procs |-> IdleCall]
  /\ callCount = 0
  /\ audit = <<>>
  /\ trail = <<>>
  /\ resolved = {}
  /\ queries = {}
  /\ verifiedTransactions = [h \in Hashes \cup {BadHash} |-> "absent"]
  /\ jobs = <<>>
  /\ config = [development |-> FALSE, skip |-> FALSE]
  /\ check \in [claimed : CheckClaimed, actual : CheckActual, verdict : {"none"}]
  /\ forced = {}
  /\ response = NoResponse
  /\ probe = NoProbe
  /\ explorer = <<>>
  /\ endpoint = NoEndpoint
  /\ fmt = NoFmt
  /\ ton = NoTon

NextAmount == CheckAmount

SpecAmount == InitAmount /\ [][NextAmount]_vars


\* ------------------------------------ the value check of verifyTransaction
\* a natural number of wei as a string of decimal digits
Wei(digits) == Dec(FALSE, digits, <<>>)

Ether(n) == [i \in 1..(18 * n) |-> 0]

\* native values of the retrieved transaction, in wei
WeiValues ==
  {Wei(<<1>>), Wei(<<1>> \o [i \in 1..17 |-> 0]),
   Wei(<<5>> \o [i \in 1..17 |-> 0]), Wei(<<1>> \o Ether(1)),
   Wei(<<9, 8>> \o Ether(1)), Wei(<<9, 7>> \o [i \in 1..18 |-> 9]),
   Wei(<<1, 0, 0>> \o Ether(1)), Wei(<<1, 0, 2>> \o Ether(1)),
   Wei(<<1, 0, 2>> \o [i \in 1..17 |-> 0] \o <<1>>),
   Wei(<<1, 0, 3>> \o Ether(1)),
   Wei(<<9, 0, 0, 7, 1, 9, 9, 2, 5, 4, 7, 4, 0, 9, 9, 3>>),
   Wei(<<5, 1>> \o [i \in 1..17 |-> 0])}

\* claimed amounts of the submitted deposit
WeiClaimed ==
  {S100, S1, Dec(FALSE, <<5, 0>>, <<>>), Dec(FALSE, <<0>>, <<5>>),
   Dec(FALSE, <<0>>, <<1>>), Dec(FALSE, <<5>>, <<>>),
   Dec(FALSE, <<0>>, <<0, 0, 9>>), Dec(FALSE, <<1, 0>>, <<>>)}

\* verifyEthereumTransaction reads the value of the transaction:
\* value: hexToEther(tx.value.toString())
ConvertWei ==
  /\ check.pc = "fetched"
  /\ check' = [check EXCEPT !.pc = "converted", !.value = hexToEther(check.wei)]
  /\ UNCHANGED <<deposits, now, chain, calls, callCount, audit, trail, resolved,
                 queries, verifiedTransactions, jobs, config, forced, response, probe, fmt, ton, explorer, endpoint>>

\* verifyTransaction compares the value with the claimed amount
CheckValue ==
  /\ check.pc = "converted"
  /\ check' = [check EXCEPT !.pc = "done",
                 !.verdict = ~valueMismatch(check.claimed, check.value)]
  /\ UNCHANGED <<deposits, now, chain, calls, callCount, audit, trail, resolved,
                 queries, verifiedTransactions, jobs, config, forced, response, probe, fmt, ton, explorer, endpoint>>

InitWei ==
  /\ deposits = <<>>
  /\ now = 0
  /\ chain = [h \in Hashes |-> NoTx]
  /\ calls = [p \in Procs |-> IdleCall]
  /\ callCount = 0
  /\ audit = <<>>
  /\ trail = <<>>
  /\ resolved = {}
  /\ queries = {}
  /\ verifiedTransactions = [h \in Hashes \cup {BadHash} |-> "absent"]
  /\ jobs = <<>>
  /\ config = [development |-> FALSE, skip |-> FALSE]
  /\ check \in [claimed : WeiClaimed, wei : WeiValues, pc : {"fetched"},
                value : {DZero}, verdict : {FALSE}]
  /\ forced = {}
  /\ response = NoResponse
  /\ probe = NoProbe
  /\ explorer = <<>>
  /\ endpoint = NoEndpoint
  /\ fmt = NoFmt
  /\ ton = NoTon

NextWei == ConvertWei \/ CheckValue

SpecWei == InitWei /\ [][NextWei]_vars


\* ------------------------------------------------- the format check alone
\* changes made to a hash before it is checked again
MaxEdits == 1

\* a transaction hash of an EVM network, digits and letters of both cases
EvmHash ==
  <<"0", "x">> \o [i \in 1..64 |-> <<"0", "9", "a", "f", "A", "F">>[(i % 6) + 1]]

\* a Solana signature of 43 characters
SolanaHash ==
  [i \in 1..43 |-> <<"1", "9", "A", "H", "J", "N", "P", "Z", "a", "k", "m", "z">>[(i % 12) + 1]]

FormatNetworks == {ETHEREUM, BSC, SOLANA, TON}

\* characters written into a hash: inside and just outside the classes
EditCharacters ==
  {"0", "1", "9", "a", "f", "g", "A", "F", "G", "I", "O", "l", "x", "X", "z",
   "/", ":", "@", "[", "_", "{"}

\* positions written to: the prefix, the first digit and the last character
EditPositions(txHash) == {1, 2, 3, Len(txHash)} \cap (1..Len(txHash))

\* the hash is checked, after the change edit of the hash prev
Checked(txHash, prev, edits) ==
  [fmt EXCEPT !.txHash = txHash, !.prev = prev, !.edits = edits, !.checked = TRUE,
              !.valid = isValidTransactionHash(txHash, fmt.network, fmt.development)]

\* isValidTransactionHash on the drawn hash
CheckHash ==
  /\ ~fmt.checked
  /\ fmt' = Checked(fmt.txHash, fmt.txHash, 0)
  /\ UNCHANGED <<deposits, now, chain, calls, callCount, audit, trail, resolved,
                 queries, verifiedTransactions, jobs, config, check, forced, response, probe, ton, explorer, endpoint>>

\* one character is replaced and the hash is checked again
ReplaceCharacter(i, c) ==
  /\ fmt.checked
  /\ fmt.edits < MaxEdits
  /\ i \in EditPositions(fmt.txHash)
  /\ fmt.txHash[i] # c
  /\ fmt' = Checked([fmt.txHash EXCEPT ![i] = c], fmt.txHash, fmt.edits + 1)
  /\ UNCHANGED <<deposits, now, chain, calls, callCount, audit, trail, resolved,
                 queries, verifiedTransactions, jobs, config, check, forced, response, probe, ton, explorer, endpoint>>

\* one character is appended and the hash is checked again
AppendCharacter(c) ==
  /\ fmt.checked
  /\ fmt.edits < MaxEdits
  /\ fmt' = Checked(Append(fmt.txHash, c), fmt.txHash, fmt.edits + 1)
  /\ UNCHANGED <<deposits, now, chain, calls, callCount, audit, trail, resolved,
                 queries, verifiedTransactions, jobs, config, check, forced, response, probe, ton, explorer, endpoint>>

\* the last character is dropped and the hash is checked again
DropCharacter ==
  /\ fmt.checked
  /\ fmt.edits < MaxEdits
  /\ fmt.txHash # <<>>
  /\ fmt' = Checked(SubSeq(fmt.txHash, 1, Len(fmt.txHash) - 1), fmt.txHash,
                    fmt.edits + 1)
  /\ UNCHANGED <<deposits, now, chain, calls, callCount, audit, trail, resolved,
                 queries, verifiedTransactions, jobs, config, check, forced, response, probe, ton, explorer, endpoint>>

InitHash ==
  /\ deposits = <<>>
  /\ now = 0
  /\ chain = [h \in Hashes |-> NoTx]
  /\ calls = [p \in Procs |-> IdleCall]
  /\ callCount = 0
  /\ audit = <<>>
  /\ trail = <<>>
  /\ resolved = {}
  /\ queries = {}
  /\ verifiedTransactions = [h \in Hashes \cup {BadHash} |-> "absent"]
  /\ jobs = <<>>
  /\ config = [development |-> FALSE, skip |-> FALSE]
  /\ check = NoCheck
  /\ forced = {}
  /\ response = NoResponse
  /\ probe = NoProbe
  /\ explorer = <<>>
  /\ endpoint = NoEndpoint
  /\ fmt \in {[NoFmt EXCEPT !.txHash = h, !.prev = h, !.network = n, !.development = dv] :
                h \in {EvmHash, SolanaHash, Append(SolanaHash, "2")},
                n \in FormatNetworks, dv \in BOOLEAN}
  /\ ton = NoTon

NextHash ==
  \/ CheckHash
  \/ \E i \in 1..(Len(EvmHash) + MaxEdits), c \in EditCharacters : ReplaceCharacter(i, c)
  \/ \E c \in EditCharacters : AppendCharacter(c)
  \/ DropCharacter

SpecHash == InitHash /\ [][NextHash]_vars


\* ---------------------------------------------------- the TON lookup alone
\* A transaction hash is a digest of 32 bytes. Buffer.toString('hex')
HexAlphabet ==
  <<"0", "1", "2", "3", "4", "5", "6", "7", "8", "9", "a", "b", "c", "d", "e", "f">>

toHex(bytes) ==
  [j \in 1..(2 * Len(bytes)) |->
     LET b == bytes[(j + 1) \div 2]
     IN  HexAlphabet[(IF j % 2 = 1 THEN b \div 16 ELSE b % 16) + 1]]

\* Buffer.toString('base64'): six bits a character, '=' up to a multiple of 4
Base64Alphabet ==
  <<"A", "B", "C", "D", "E", "F", "G", "H", "I", "J", "K", "L", "M", "N", "O", "P", "Q", "R", "S", "T", "U", "V", "W", "X", "Y", "Z",
    "a", "b", "c", "d", "e", "f", "g", "h", "i", "j", "k", "l", "m", "n", "o", "p", "q", "r", "s", "t", "u", "v", "w", "x", "y", "z",
    "0", "1", "2", "3", "4", "5", "6", "7", "8", "9", "+", "/">>

toBase64(bytes) ==
  LET byteAt(i) == IF i <= Len(bytes) THEN bytes[i] ELSE 0
      count     == (8 * Len(bytes) + 5) \div 6
      sextet(j) == LET o == 6 * (j - 1)
                       w == 256 * byteAt(o \div 8 + 1) + byteAt(o \div 8 + 2)
                   IN  (w \div Pow2(10 - (o % 8))) % 64
  IN  [j \in 1..(4 * ((count + 3) \div 4)) |->
         IF j <= count THEN Base64Alphabet[sextet(j) + 1] ELSE "="]

\* String.prototype.toLowerCase on the characters of the model
toLowerCase(str) ==
  [i \in 1..Len(str) |->
     IF str[i] \in CharRange("A", "Z")
     THEN Characters[CodeOf(str[i]) + CodeOf("a") - CodeOf("A")]
     ELSE str[i]]

\* str.replace(/c/g, by)
replaceAll(str, c, by) == [i \in 1..Len(str) |-> IF str[i] = c THEN by ELSE str[i]]

\* '='.repeat(n)
repeatPad(n) == [i \in 1..n |-> "="]

\* str.replace(/=+$/, '')
stripPadding(str) ==
  LET cut == CHOOSE i \in 0..Len(str) :
               /\ \A j \in (i + 1)..Len(str) : str[j] = "="
               /\ (i = 0 \/ str[i] # "=")
  IN  SubSeq(str, 1, cut)

\* normalizeBase64 with the padding left as it comes
normalizeBase64Unpadded(base64Str) == base64Str

\* normalizeBase64(base64Str)
normalizeBase64(base64Str) ==
  LET padding == Len(base64Str) % 4
  IN  IF padding # 0 THEN base64Str \o repeatPad(4 - padding) ELSE base64Str

\* cleanBase64Hash(input): the variants tried, the empty ones filtered out
cleanBase64Hash(input) ==
  LET urlSafeRemoved == replaceAll(replaceAll(input, "-", "+"), "_", "/")
      results ==
        <<input, normalizeBase64(input), urlSafeRemoved,
          normalizeBase64(urlSafeRemoved)>>
        \o (IF input # <<>> /\ input[Len(input)] = "="
            THEN <<stripPadding(input)>>
            ELSE [i \in 1..3 |-> input \o repeatPad(i)])
  IN  SelectSeq(results, LAMBDA r : r # <<>>)

\* the escapes of the characters of base64 that are no URI characters
Unescaped(a, b) ==
  IF a = "2" /\ b \in {"B", "b"} THEN "+"
  ELSE IF a = "2" /\ b \in {"F", "f"} THEN "/"
  ELSE IF a = "3" /\ b \in {"D", "d"} THEN "="
  ELSE ""

\* decodeURIComponent inside its try block: a string whose escapes are those
\* of Unescaped is decoded, any other string with '%' is left as it is
decodeURIComponent(str) ==
  LET escapes == {i \in 1..Len(str) : str[i] = "%"}
      wellFormed == \A i \in escapes :
                      i + 2 <= Len(str) /\ Unescaped(str[i + 1], str[i + 2]) # ""
      kept == {p \in 1..Len(str) : (p - 1) \notin escapes /\ (p - 2) \notin escapes}
      nth(k) == CHOOSE p \in kept : Cardinality({q \in kept : q <= p}) = k
  IN  IF ~wellFormed THEN str
      ELSE [k \in 1..Cardinality(kept) |->
              LET p == nth(k)
              IN  IF p \in escapes THEN Unescaped(str[p + 1], str[p + 2]) ELSE str[p]]

\* the callback of txs.find: whether the transaction with this hash is the
\* one asked for
hashMatches(hash, targetHash) ==
  LET cleanTargetHash == IF \E i \in 1..Len(targetHash) : targetHash[i] = "%"
                         THEN decodeURIComponent(targetHash)
                         ELSE targetHash
      targetHashVariants == cleanBase64Hash(targetHash) \o cleanBase64Hash(cleanTargetHash)
      txHashHex    == toLowerCase(toHex(hash))
      txHashBase64 == toBase64(hash)
  IN  \/ txHashHex = toLowerCase(targetHash)
      \/ txHashHex = toLowerCase(cleanTargetHash)
      \/ txHashBase64 = targetHash
      \/ txHashBase64 = cleanTargetHash
      \/ \E k \in 1..Len(targetHashVariants) : txHashBase64 = targetHashVariants[k]

\* txs.find(...): the first transaction that matches, 0 when none does
findMatch(txs, targetHash) ==
  LET m == {i \in 1..Len(txs) : hashMatches(txs[i], targetHash)}
  IN  IF m = {} THEN 0 ELSE CHOOSE i \in m : \A j \in m : i <= j

\* digests whose base64 form has '+' and '/' in it, at the start and before
\* the padding
Digest(a, b, z) ==
  [i \in 1..32 |-> IF i = 1 THEN a ELSE IF i = 2 THEN b ELSE IF i = 32 THEN z
                    ELSE (37 * i) % 256]

Digests == {Digest(a, 239, z) : a \in {251, 255, 0}, z \in {190, 255}}

\* the forms in which a client sends the hash of a digest
Forms ==
  {"base64", "base64url", "base64urlUnpadded", "hex", "hexUpperCase",
   "hexMixedCase", "base64Escaped"}

\* the characters A-F of a hex string in upper case, every second one when
\* mixed
upperHex(str, mixed) ==
  [i \in 1..Len(str) |->
     IF str[i] \in CharRange("a", "f") /\ (~mixed \/ i % 2 = 0)
     THEN Characters[CodeOf(str[i]) - (CodeOf("a") - CodeOf("A"))]
     ELSE str[i]]

\* encodeURIComponent on a base64 string
escaped(str) ==
  LET width(i) == IF str[i] \in {"+", "/", "="} THEN 3 ELSE 1
      start(i) == 1 + Len(SelectSeq(SubSeq(str, 1, i - 1), LAMBDA c : TRUE))
                    + 2 * Len(SelectSeq(SubSeq(str, 1, i - 1),
                                        LAMBDA c : c \in {"+", "/", "="}))
      total    == Len(str) + 2 * Len(SelectSeq(str, LAMBDA c : c \in {"+", "/", "="}))
  IN  [k \in 1..total |->
         LET i == CHOOSE j \in 1..Len(str) : start(j) <= k /\ k < start(j) + width(j)
             o == k - start(i)
         IN  IF width(i) = 1 THEN str[i]
             ELSE IF o = 0 THEN "%"
             ELSE IF str[i] = "+" THEN <<"2", "B">>[o]
             ELSE IF str[i] = "/" THEN <<"2", "F">>[o]
             ELSE <<"3", "D">>[o]]

\* the hash of a digest as the client sends it
Sent(form, digest) ==
  LET standard == toBase64(digest)
      urlSafe  == replaceAll(replaceAll(standard, "+", "-"), "/", "_")
  IN  IF form = "base64" THEN standard
      ELSE IF form = "base64url" THEN urlSafe
      ELSE IF form = "base64urlUnpadded" THEN stripPadding(urlSafe)
      ELSE IF form = "hex" THEN toHex(digest)
      ELSE IF form = "hexUpperCase" THEN upperHex(toHex(digest), FALSE)
      ELSE IF form = "hexMixedCase" THEN upperHex(toHex(digest), TRUE)
      ELSE escaped(standard)

\* getTransactionForTon from the transactions fetched to the match
GetTransactionForTon ==
  /\ ~ton.done
  /\ ton' = [ton EXCEPT !.done = TRUE, !.match = findMatch(ton.txs, ton.targetHash)]
  /\ UNCHANGED <<deposits, now, chain, calls, callCount, audit, trail, resolved,
                 queries, verifiedTransactions, jobs, config, check, forced, response, probe,
                 fmt, explorer, endpoint>>

\* the address has one or two transactions, and the hash asked for is the
\* hash of one of them or of none
InitTon ==
  /\ deposits = <<>>
  /\ now = 0
  /\ chain = [h \in Hashes |-> NoTx]
  /\ calls = [p \in Procs |-> IdleCall]
  /\ callCount = 0
  /\ audit = <<>>
  /\ trail = <<>>
  /\ resolved = {}
  /\ queries = {}
  /\ verifiedTransactions = [h \in Hashes \cup {BadHash} |-> "absent"]
  /\ jobs = <<>>
  /\ config = [development |-> FALSE, skip |-> FALSE]
  /\ check = NoCheck
  /\ forced = {}
  /\ response = NoResponse
  /\ probe = NoProbe
  /\ explorer = <<>>
  /\ endpoint = NoEndpoint
  /\ fmt = NoFmt
  /\ \E first \in Digests, second \in Digests, asked \in Digests, form \in Forms,
        n \in 1..2 :
       LET txs == IF n = 1 THEN <<first>> ELSE <<first, second>>
           at  == {i \in 1..Len(txs) : txs[i] = asked}
       IN  ton = [NoTon EXCEPT !.txs = txs, !.targetHash = Sent(form, asked),
                               !.form = form,
                               !.wanted = IF at = {} THEN 0
                                          ELSE CHOOSE i \in at : \A j \in at : i <= j]

NextTon == GetTransactionForTon

SpecTon == InitTon /\ [][NextTon]_vars


\* ------------------------------------------------------- getExplorerUrl
MaxExplorerCalls == 3

\* the Network values of the enum, and a number outside it
ExplorerNetworks == ETHEREUM..(TON + 1)

\* the TON case added to the switch
getExplorerUrlWithTon(txHash, network) ==
  IF network = ETHEREUM THEN <<"https://sepolia.etherscan.io/tx/", txHash>>
  ELSE IF network = BSC THEN <<"https://testnet.bscscan.com/tx/", txHash>>
  ELSE IF network = SOLANA
  THEN <<"https://explorer.solana.com/tx/", txHash, "?cluster=testnet">>
  ELSE IF network = TON THEN <<"https://testnet.tonscan.org/tx/", txHash>>
  ELSE <<>>

\* getExplorerUrl: the pieces of the template string, in order; the empty
\* string has no piece
getExplorerUrl(txHash, network) ==
  IF network = ETHEREUM THEN <<"https://sepolia.etherscan.io/tx/", txHash>>
  ELSE IF network = BSC THEN <<"https://testnet.bscscan.com/tx/", txHash>>
  ELSE IF network = SOLANA
  THEN <<"https://explorer.solana.com/tx/", txHash, "?cluster=testnet">>
  ELSE <<>>

\* a call of getExplorerUrl; the switch has no statement that can throw
GetExplorerUrl(txHash, network) ==
  /\ Len(explorer) < MaxExplorerCalls
  /\ explorer' = Append(explorer, [txHash |-> txHash, network |-> network,
                                   threw |-> FALSE,
                                   url |-> getExplorerUrl(txHash, network)])
  /\ UNCHANGED <<deposits, now, chain, calls, callCount, audit, trail, resolved,
                 queries, verifiedTransactions, jobs, config, check, forced, response,
                 probe, fmt, ton, endpoint>>

InitExplorer ==
  /\ deposits = <<>>
  /\ now = 0
  /\ chain = [h \in Hashes |-> NoTx]
  /\ calls = [p \in Procs |-> IdleCall]
  /\ callCount = 0
  /\ audit = <<>>
  /\ trail = <<>>
  /\ resolved = {}
  /\ queries = {}
  /\ verifiedTransactions = [h \in Hashes \cup {BadHash} |-> "absent"]
  /\ jobs = <<>>
  /\ config = [development |-> FALSE, skip |-> FALSE]
  /\ check = NoCheck
  /\ forced = {}
  /\ response = NoResponse
  /\ probe = NoProbe
  /\ fmt = NoFmt
  /\ ton = NoTon
  /\ explorer = <<>>
  /\ endpoint = NoEndpoint

NextExplorer ==
  \E txHash \in Hashes \cup {BadHash}, network \in ExplorerNetworks :
    GetExplorerUrl(txHash, network)

SpecExplorer == InitExplorer /\ [][NextExplorer]_vars


\* ------------------------------------------ the TON client selection alone
\* the endpoints array of getTransactionForTon: the dynamic endpoint, the
\* global client, toncenter, tonwhales
Endpoints == 1..4

\* getClient() of endpoint e: only the first awaits getHttpEndpoint(), which
\* can reject; the others return or construct a client
clientCreated(e, discovery) == e # 1 \/ discovery

\* after the loop: if (!client) return the connection error; else parse the
\* address again and request the transactions with client
AfterLoop(s) ==
  IF s.client = 0
  THEN [s EXCEPT !.pc = "done", !.result = "Unable to connect to TON network after multiple attempts"]
  ELSE IF ~s.addressValid
  THEN [s EXCEPT !.pc = "done", !.result = "error.message"]
  ELSE [s EXCEPT !.pc = "fetch", !.fetched = s.client]

\* the iteration leaves the loop on break or after the last endpoint
Continue(s, break) ==
  IF break \/ s.next = 4 THEN AfterLoop([s EXCEPT !.next = 5])
  ELSE [s EXCEPT !.next = s.next + 1]

\* getTransactionForTon is called
CallGetTransactionForTon ==
  /\ endpoint.pc = "idle"
  /\ endpoint' = [endpoint EXCEPT !.pc = "create"]
  /\ UNCHANGED <<deposits, now, chain, calls, callCount, audit, trail, resolved,
                 queries, verifiedTransactions, jobs, config, check, forced, response,
                 probe, fmt, ton, explorer>>

\* one iteration up to the probe: client = await getClient(), then
\* Address.parse(address), then the request of one transaction
CreateClient ==
  /\ endpoint.pc = "create"
  /\ LET e == endpoint.next
     IN  endpoint' =
           IF ~clientCreated(e, endpoint.discovery) THEN Continue(endpoint, FALSE)
           ELSE IF ~endpoint.addressValid
           THEN Continue([endpoint EXCEPT !.client = e], FALSE)
           ELSE [endpoint EXCEPT !.client = e, !.pc = "probe"]
  /\ UNCHANGED <<deposits, now, chain, calls, callCount, audit, trail, resolved,
                 queries, verifiedTransactions, jobs, config, check, forced, response,
                 probe, fmt, ton, explorer>>

\* the probe returns or throws: break, or catch and go on with the next
TestClient ==
  /\ endpoint.pc = "probe"
  /\ LET e == endpoint.next
         s == [endpoint EXCEPT !.pc = "create", !.probed = @ \cup {e}]
     IN  endpoint' = Continue(s, endpoint.up[e])
  /\ UNCHANGED <<deposits, now, chain, calls, callCount, audit, trail, resolved,
                 queries, verifiedTransactions, jobs, config, check, forced, response,
                 probe, fmt, ton, explorer>>

\* client.getTransactions(parsedAddress, {limit: 50}) returns, or throws into
\* the catch of getTransactionForTon
FetchTransactions ==
  /\ endpoint.pc = "fetch"
  /\ endpoint' = [endpoint EXCEPT !.pc = "done",
                    !.result = IF endpoint.up[endpoint.fetched]
                               THEN "transactions" ELSE "error.message"]
  /\ UNCHANGED <<deposits, now, chain, calls, callCount, audit, trail, resolved,
                 queries, verifiedTransactions, jobs, config, check, forced, response,
                 probe, fmt, ton, explorer>>

InitEndpoints ==
  /\ deposits = <<>>
  /\ now = 0
  /\ chain = [h \in Hashes |-> NoTx]
  /\ calls = [p \in Procs |-> IdleCall]
  /\ callCount = 0
  /\ audit = <<>>
  /\ trail = <<>>
  /\ resolved = {}
  /\ queries = {}
  /\ verifiedTransactions = [h \in Hashes \cup {BadHash} |-> "absent"]
  /\ jobs = <<>>
  /\ config = [development |-> FALSE, skip |-> FALSE]
  /\ check = NoCheck
  /\ forced = {}
  /\ response = NoResponse
  /\ probe = NoProbe
  /\ fmt = NoFmt
  /\ ton = NoTon
  /\ explorer = <<>>
  /\ \E addressValid \in BOOLEAN, discovery \in BOOLEAN, up \in [Endpoints -> BOOLEAN] :
       endpoint = [NoEndpoint EXCEPT !.addressValid = addressValid,
                                     !.discovery = discovery, !.up = up]

NextEndpoints ==
  CallGetTransactionForTon \/ CreateClient \/ TestClient \/ FetchTransactions

SpecEndpoints == InitEndpoints /\ [][NextEndpoints]_vars


\* ------------------------------------------------------------------ claims
\* Exact decimal arithmetic, for stating what the amount check should decide.
\* x * 10^k as a natural, for a non-negative decimal x with at most k
\* fraction digits
Scaled(x, k) == BFromDigits(x.int \o x.frac \o [i \in 1..(k - Len(x.frac)) |-> 0])

\* |claimed - actual| / claimed * 100 <= 2 over the rationals, claimed > 0
WithinTwoPercent(claimed, actual) ==
  LET k == IF Len(claimed.frac) > Len(actual.frac) THEN Len(claimed.frac)
           ELSE Len(actual.frac)
      X == Scaled(claimed, k)
      Y == Scaled(actual, k)
      d == IF BCmp(X, Y) >= 0 THEN BSub(X, Y) ELSE BSub(Y, X)
  IN  BCmp(BMulSmall(d, 100), BMulSmall(X, 2)) <= 0

ExactTable ==
  [c \in ClaimedAmounts |-> [a \in AllTransferred |-> WithinTwoPercent(c, a)]]

Ids == 1..Len(deposits)

\* C1: every deposit that is CONFIRMED was set to CONFIRMED by a verifyDeposit
\* run that retrieved the transaction, found its timestamp not earlier than the
\* deposit's requestTimestamp, and found the transferred amount within 2% of
\* the claimed one.
C1_ConfirmedOnlyByVerifiedRun ==
  \A i \in Ids :
    deposits[i].status = CONFIRMED =>
      /\ audit[i].by = "verifyDeposit"
      /\ audit[i].status = CONFIRMED
      /\ audit[i].retrieved
      /\ audit[i].txTs >= deposits[i].requestTimestamp
      /\ ExactTable[audit[i].claimed][audit[i].actual]

\* a deposit confirmed by a verifyDeposit run
C1_ConfirmedByRun ==
  \E i \in Ids : deposits[i].status = CONFIRMED /\ audit[i].by = "verifyDeposit"

\* C2: once a deposit's status is CONFIRMED, REJECTED or FAILED, no step
\* changes it.
C2_TerminalIsFinal ==
  [][\A i \in Ids : deposits[i].status \in Terminal =>
        deposits'[i].status = deposits[i].status]_vars

\* a deposit in a terminal status that a call has just written
C2_TerminalReached ==
  \E i \in Ids : deposits[i].status \in Terminal /\ audit[i].by = "verifyDeposit"


\* worker p's save returns in this step
Saves(p) == calls[p].pc = "save" /\ calls'[p].pc = "idle"

\* C3: a transaction hash resolves at most one deposit: no two deposits were
\* set to CONFIRMED or REJECTED by verifyDeposit with the same hash.
C3_HashResolvesOneDeposit ==
  \A i, j \in Ids :
    (i # j /\ audit[i].by = "verifyDeposit" /\ audit[j].by = "verifyDeposit")
      => audit[i].hash # audit[j].hash

\* two deposits that verifyDeposit resolved
C3_TwoResolved ==
  \E i, j \in Ids : i # j /\ audit[i].by = "verifyDeposit" /\ audit[j].by = "verifyDeposit"

\* C4: when a verifyDeposit call saves a deposit that another verifyDeposit
\* call, which read it while it was PENDING too, has already resolved, the
\* stored terminal status and transaction hash stay as they are.
C4_SecondSaveKeepsFirst ==
  [][\A p \in Procs :
       (/\ Saves(p)
        /\ audit[calls[p].dep].by = "verifyDeposit"
        /\ deposits[calls[p].dep].status \in Terminal)
       => /\ deposits'[calls[p].dep].status = deposits[calls[p].dep].status
          /\ deposits'[calls[p].dep].transactionHash =
               deposits[calls[p].dep].transactionHash]_vars

\* a call about to save a deposit that a concurrent call has resolved
C4_SecondAboutToSave ==
  \E p \in Procs :
    /\ calls[p].pc = "save"
    /\ audit[calls[p].dep].by = "verifyDeposit"
    /\ deposits[calls[p].dep].status \in Terminal

\* C5: when verifyDeposit is called again with the arguments of the call that
\* just resolved a deposit, it returns the same success value and the deposit
\* keeps the terminal status the first call gave it.
C5_RepeatSameOutcome ==
  [][(/\ trail # <<>>
      /\ trail' # <<>>
      /\ trail' # trail
      /\ trail[1].alone
      /\ trail'[1].alone
      /\ trail[1].status \in Terminal
      /\ trail'[1].userId = trail[1].userId
      /\ trail'[1].hash = trail[1].hash
      /\ trail'[1].network = trail[1].network
      /\ trail'[1].amount = trail[1].amount)
     => /\ trail'[1].success = trail[1].success
        /\ deposits'[trail[1].dep].status = trail[1].status]_vars

\* a call that resolved a deposit has been repeated
C5_Repeated ==
  /\ trail # <<>>
  /\ trail[1].alone
  /\ trail[1].n = 2
  /\ \E i \in Ids : /\ audit[i].by = "verifyDeposit"
                    /\ audit[i].hash = trail[1].hash
                    /\ deposits[i].userId = trail[1].userId

\* C7: when verifyDeposit has retrieved a transaction whose block timestamp is
\* earlier than the requestTimestamp of the deposit it selected, its save
\* leaves the deposit REJECTED and it returns success = false, whatever the
\* transferred amount.
C7_EarlyTransactionRejected ==
  [][\A p \in Procs :
       (Saves(p) /\ chain[calls[p].hash].ts < deposits[calls[p].dep].requestTimestamp)
       => /\ deposits'[calls[p].dep].status = REJECTED
          /\ ~calls[p].result.success]_vars

\* a deposit rejected for a transaction that is too early and pays exactly the
\* claimed amount
C7_EarlyExactRejected ==
  \E i \in Ids :
    /\ deposits[i].status = REJECTED
    /\ audit[i].by = "verifyDeposit"
    /\ audit[i].status = REJECTED
    /\ audit[i].txTs < deposits[i].requestTimestamp
    /\ parseFloat(audit[i].actual) = parseFloat(audit[i].claimed)


\* C6: no provider query is made for a transaction hash that an earlier
\* verification has already resolved, by verifyDeposit or by verifyTransaction.
C6_NoQueryForResolvedHash == \A q \in queries : ~q.known

\* a verification was requested for a hash that is already resolved
C6_ResolvedHashRequested ==
  \E p \in Procs : calls[p].pc = "fetch" /\ calls[p].hash \in resolved

Verifications == {"verifyDeposit", "startVerificationProcess"}

\* C9: a deposit that a verification has set to CONFIRMED stores the amount
\* that was verified on chain as its platformTokenAmount.
C9_PlatformAmountIsActual ==
  \A i \in Ids :
    (/\ deposits[i].status = CONFIRMED
     /\ audit[i].by \in Verifications
     /\ audit[i].status = CONFIRMED)
    => deposits[i].platformTokenAmount = audit[i].actual

\* a deposit confirmed for a transfer of the claimed amount
C9_ConfirmedExact ==
  \E i \in Ids :
    /\ deposits[i].status = CONFIRMED
    /\ audit[i].by \in Verifications
    /\ audit[i].status = CONFIRMED
    /\ audit[i].actual = deposits[i].depositAmount

\* C8: for a claimed amount greater than zero the amount check accepts
\* exactly when |claimed - actual| / claimed * 100 <= 2.
C8_AcceptsIffWithinTolerance ==
  (check.verdict # "none" /\ check.claimed # S0)
    => ((check.verdict = CONFIRMED) <=> WithinTwoPercent(check.claimed, check.actual))

\* the amount check has accepted an amount exactly 2% below the claimed 100
C8_BoundaryAccepted ==
  /\ check.verdict = CONFIRMED
  /\ check.claimed = S100
  /\ check.actual = Dec(FALSE, <<9, 8>>, <<>>)


\* what the adapters report when the transaction is not found, is not mined
\* yet, or the provider call failed
ProviderFailures == {"notfound", "pending", "error"}

\* C10: when the adapter reported not found, not yet mined or a failed
\* provider call, the verification leaves the deposit PENDING or VERIFYING.
C10_ProviderFailureLeavesOpen ==
  [][\A d \in 1..Len(jobs) :
       (/\ jobs[d].pc = "write"
        /\ jobs'[d].pc = "done"
        /\ jobs[d].reply \in ProviderFailures)
       => deposits'[d].status \in {PENDING, VERIFYING}]_vars

\* a background verification whose adapter reported such a failure has
\* written its outcome
C10_FailureWritten ==
  \E d \in 1..Len(jobs) : jobs[d].pc = "done" /\ jobs[d].reply \in ProviderFailures


\* the verification of job e has ended in a failure the provider reported
ProviderFailed(e) ==
  /\ jobs[e].pc \in {"write", "done"}
  /\ jobs[e].reply \in ProviderFailures
  /\ ~jobs[e].isVerified

\* C11: when a verification of a hash has failed because the provider
\* reported not found, not yet mined or an error, a later verification of the
\* same hash that ends while the provider holds a successful transaction of
\* the claimed amount succeeds: the earlier failure is not replayed.
C11_FailureNotReplayed ==
  [][\A d, e \in 1..Len(jobs) :
       (/\ d # e
        /\ ProviderFailed(e)
        /\ deposits[e].transactionHash = deposits[d].transactionHash
        /\ jobs[d].pc \in {"verify", "reply"}
        /\ jobs'[d].pc = "write"
        /\ jobs'[d].reply \in {"cached", "ok"}
        /\ ~ValueMismatchTable[deposits[d].depositAmount]
                              [chain[deposits[d].transactionHash]])
       => jobs'[d].isVerified]_vars

\* a hash whose verification failed at the provider is submitted again
C11_Resubmitted ==
  \E d, e \in 1..Len(jobs) :
    /\ d # e
    /\ ProviderFailed(e)
    /\ deposits[e].transactionHash = deposits[d].transactionHash
    /\ jobs[d].pc = "verify"


\* C12: a verifyDeposit call that finds no PENDING deposit for its userId,
\* network and amount returns success = false with the message 'No matching
\* deposit request found' and changes no deposit; a call goes on to the
\* provider only with such a deposit.
C12_NoMatchNoEffect ==
  [][/\ (/\ callCount' = callCount + 1
         /\ trail' # <<>>
         /\ trail' # trail
         /\ MatchingPending(deposits, trail'[1].userId, trail'[1].network,
                            trail'[1].amount) = {})
        => /\ deposits' = deposits
           /\ ~trail'[1].success
           /\ trail'[1].message = "No matching deposit request found"
     /\ \A p \in Procs :
          (calls[p].pc = "idle" /\ calls'[p].pc = "fetch")
          => MatchingPending(deposits, calls'[p].userId, calls'[p].network,
                             calls'[p].amount) # {}]_vars

\* a call has found no matching request although the user has a resolved
\* deposit of that network and amount
C12_NoMatchReturned ==
  /\ trail # <<>>
  /\ trail[1].message = "No matching deposit request found"
  /\ \E i \in Ids : /\ deposits[i].userId = trail[1].userId
                    /\ deposits[i].network = trail[1].network
                    /\ deposits[i].depositAmount = trail[1].amount
                    /\ deposits[i].status \in Terminal


\* C13: an unexpected exception raised while a deposit is being verified leaves
\* the deposit FAILED: a verifyDeposit call that ends in its catch block, and a
\* verification job whose provider call raised, both leave the deposit FAILED
C13_ExceptionFails ==
  [][/\ (/\ trail' # <<>>
          /\ trail' # trail
          /\ trail'[1].message = "Error verifying deposit")
         => deposits'[trail'[1].dep].status = FAILED
      /\ \A d \in 1..Len(jobs) :
           (jobs[d].pc = "write" /\ jobs'[d].pc = "done" /\ jobs[d].reply = "error")
           => deposits'[d].status = FAILED]_vars

\* a verifyDeposit call has just ended in its catch block, with its deposit
\* found beforehand
C13_ExceptionCaught ==
  /\ trail # <<>>
  /\ trail[1].message = "Error verifying deposit"
  /\ trail[1].dep \in 1..Len(deposits)

\* C14: every deposit that enters VERIFYING eventually reaches CONFIRMED,
\* REJECTED or FAILED, when every provider call and every store write returns
C14_VerifyingEventuallyResolved ==
  \A d \in 1..MaxDeposits :
    (d <= Len(deposits) /\ deposits[d].status = VERIFYING)
      ~> (d <= Len(deposits) /\ deposits[d].status \in Terminal)

\* a deposit is VERIFYING while no verifyDeposit call is running
C14_VerifyingAndIdle ==
  /\ \E d \in 1..Len(deposits) : deposits[d].status = VERIFYING
  /\ \A p \in Procs : ~InFlight(p)

\* C15: every deposit created by createDepositRequest starts PENDING, with the
\* static deposit address of its network and the creation time as its
\* requestTimestamp
C15_CreatedPending ==
  [][Len(deposits') = Len(deposits) + 1
     => LET d == deposits'[Len(deposits')]
        IN  /\ d.status = PENDING
            /\ d.depositAddress = getDepositAddressForNetwork(d.network)
            /\ d.requestTimestamp = now]_vars

\* a deposit that no verification has written is not PENDING
C15_CreatedOtherwise ==
  \E d \in 1..Len(deposits) :
    /\ audit[d].by = "createDepositRequest"
    /\ deposits[d].status # PENDING

\* C16: in every reachable state a deposit has a verificationTimestamp only if
\* its status is CONFIRMED
C16_TimestampOnlyOnConfirmed ==
  \A d \in 1..Len(deposits) :
    deposits[d].verificationTimestamp # NoTime => deposits[d].status = CONFIRMED

\* a deposit that verifyDeposit confirmed carries its verificationTimestamp
C16_ConfirmedWithTimestamp ==
  \E d \in 1..Len(deposits) :
    /\ audit[d].by = "verifyDeposit"
    /\ audit[d].status = CONFIRMED
    /\ deposits[d].verificationTimestamp # NoTime

\* the hexadecimal digits of either case
HexDigits ==
  {"0", "1", "2", "3", "4", "5", "6", "7", "8", "9",
   "a", "b", "c", "d", "e", "f", "A", "B", "C", "D", "E", "F"}

\* the Base58 alphabet: digits and letters without 0, O, I and l
Base58 ==
  {"1", "2", "3", "4", "5", "6", "7", "8", "9",
   "A", "B", "C", "D", "E", "F", "G", "H", "J", "K", "L", "M", "N", "P", "Q",
   "R", "S", "T", "U", "V", "W", "X", "Y", "Z",
   "a", "b", "c", "d", "e", "f", "g", "h", "i", "j", "k", "m", "n", "o", "p",
   "q", "r", "s", "t", "u", "v", "w", "x", "y", "z"}

\* '0x' followed by 64 hexadecimal characters
IsEvmHash(h) ==
  /\ Len(h) = 66
  /\ h[1] = "0"
  /\ h[2] = "x"
  /\ \A i \in 3..66 : h[i] \in HexDigits

\* 43 or 44 characters of the Base58 alphabet
IsSolanaHash(h) ==
  /\ Len(h) \in {43, 44}
  /\ \A i \in 1..Len(h) : h[i] \in Base58

\* what the format of the network asks of h
HasFormat(h, network) ==
  IF network \in {ETHEREUM, BSC} THEN IsEvmHash(h)
  ELSE IF network = SOLANA THEN IsSolanaHash(h)
  ELSE FALSE

AlphabetOf(network) == IF network = SOLANA THEN Base58 ELSE HexDigits

\* the checked hash is a valid hash with one character replaced by a
\* character outside the alphabet
ReplacedOutside ==
  /\ fmt.edits > 0
  /\ HasFormat(fmt.prev, fmt.network)
  /\ Len(fmt.txHash) = Len(fmt.prev)
  /\ \E i \in 1..Len(fmt.txHash) :
       /\ fmt.txHash[i] # fmt.prev[i]
       /\ fmt.txHash[i] \notin AlphabetOf(fmt.network)

\* the checked hash is a valid hash with its length changed
LengthChanged ==
  /\ fmt.edits > 0
  /\ HasFormat(fmt.prev, fmt.network)
  /\ Len(fmt.txHash) # Len(fmt.prev)

\* C18 as stated: outside development mode isValidTransactionHash is true for
\* ETHEREUM and BSC exactly for '0x' and 64 hexadecimal characters, true for
\* SOLANA exactly for 43 or 44 Base58 characters, and false for a valid hash
\* with one character replaced by one outside the alphabet or with its length
\* changed
C18_FormatAsStated ==
  (fmt.checked /\ ~fmt.development /\ fmt.network \in {ETHEREUM, BSC, SOLANA})
  => /\ fmt.valid = HasFormat(fmt.txHash, fmt.network)
     /\ ReplacedOutside => ~fmt.valid
     /\ LengthChanged => ~fmt.valid

\* C18, amended: the same, where a changed length makes the result false
\* when the new length is not one the network allows (a Solana hash of 43
\* characters with one more Base58 character is still valid)
C18_FormatExact ==
  (fmt.checked /\ ~fmt.development /\ fmt.network \in {ETHEREUM, BSC, SOLANA})
  => /\ fmt.valid = HasFormat(fmt.txHash, fmt.network)
     /\ ReplacedOutside => ~fmt.valid
     /\ (/\ LengthChanged
         /\ Len(fmt.txHash) \notin (IF fmt.network = SOLANA THEN {43, 44} ELSE {66}))
        => ~fmt.valid

\* a valid EVM hash with upper-case digits was accepted, and is rejected with
\* one character replaced by a character that is no hexadecimal digit
C18_ReplacedRejected ==
  /\ fmt.checked
  /\ ~fmt.development
  /\ fmt.network = ETHEREUM
  /\ ReplacedOutside
  /\ \E i \in 3..66 : fmt.prev[i] \in {"A", "F"}
  /\ ~fmt.valid

\* C17: submitting a hash that fails the format check of its network yields a
\* format error and nothing else: no deposit is created or changed, no
\* verification starts, the verification cache stays as it is, and
\* verifyTransaction never meets such a hash
C17_BadFormatNoEffect ==
  [][/\ (/\ response' # response
         /\ response'.op \in {"submitDepositTransaction", "testTransactionVerification"}
         /\ ~hashFormatValid(response'.hash, response'.network))
        => /\ response'.code = 400
           /\ deposits' = deposits
           /\ jobs' = jobs
           /\ verifiedTransactions' = verifiedTransactions
     /\ \A d \in 1..Len(jobs') : jobs'[d].reply # "format"]_vars

\* a malformed hash was submitted while a deposit was waiting for its
\* verification, and the submission was refused
C17_BadHashRefused ==
  /\ response.op = "submitDepositTransaction"
  /\ response.hash = BadHash
  /\ response.code = 400
  /\ \E d \in 1..Len(jobs) : jobs[d].pc = "start"

\* C20: once setTransactionVerificationStatus(h, true) has run, every later
\* verifyTransaction call for h returns true without a provider call
C20_ForcedStaysVerified ==
  [][/\ \A d \in 1..Len(jobs) :
          (/\ jobs[d].pc = "verify"
           /\ jobs'[d].pc # "verify"
           /\ deposits[d].transactionHash \in forced)
          => /\ jobs'[d].pc = "write"
             /\ jobs'[d].reply = "cached"
             /\ jobs'[d].isVerified
     /\ (/\ probe.pc = "idle"
         /\ response' # response
         /\ response'.op = "testTransactionVerification"
         /\ response'.code = 200
         /\ response'.hash \in forced')
        => response'.verified /\ queries' = queries
     /\ (probe.pc = "idle" /\ probe'.pc = "reply") => probe'.hash \notin forced']_vars

\* a verification of a forced hash is about to call verifyTransaction
C20_ForcedHashVerified ==
  \E d \in 1..Len(jobs) :
    /\ jobs[d].pc = "verify"
    /\ deposits[d].transactionHash \in forced

\* C19: getTransactionForTon finds the transaction whose hash is asked for in
\* base64url, padded or not, and in hex of any letter case
C19_TonVariantsFound ==
  (/\ ton.done
   /\ ton.wanted > 0
   /\ ton.form \in {"base64url", "base64urlUnpadded", "hex", "hexUpperCase",
                     "hexMixedCase"})
  => ton.match = ton.wanted

\* the second transaction of the address was asked for by its unpadded
\* base64url hash, which has '-' and '_' in it, and was found
C19_UrlSafeFound ==
  /\ ton.done
  /\ ton.form = "base64urlUnpadded"
  /\ ton.wanted = 2
  /\ ton.match = 2
  /\ \E i \in 1..Len(ton.targetHash) : ton.targetHash[i] = "-"
  /\ \E i \in 1..Len(ton.targetHash) : ton.targetHash[i] = "_"
  /\ ton.targetHash[Len(ton.targetHash)] # "="


\* the double x is exactly wei / 10^18
ExactEther(x, wei) ==
  LET W == BFromDigits(wei.int)
  IN  /\ x.k = "fin"
      /\ ~x.neg
      /\ IF x.m = <<>> THEN W = <<>>
         ELSE IF x.e >= 0 THEN BMul(BShl(x.m, x.e), BPow10(18)) = W
         ELSE BMul(x.m, BPow10(18)) = BShl(W, 0 - x.e)

\* |claimed - wei / 10^18| <= 2% of claimed over the rationals, claimed > 0
WeiWithinTwoPercent(claimed, wei) ==
  LET X == Scaled(claimed, 18)
      Y == BFromDigits(wei.int)
      d == IF BCmp(X, Y) >= 0 THEN BSub(X, Y) ELSE BSub(Y, X)
  IN  BCmp(BMulSmall(d, 100), BMulSmall(X, 2)) <= 0

\* C21: the amount converted from a number of wei is exactly wei / 10^18, and
\* the value check accepts exactly when that exact amount is within 2% of the
\* claimed amount: no value, above 2^53 or not, is changed by a passage
\* through a 64-bit floating-point number.
C21_ConversionAndMatchExact ==
  /\ check.pc \in {"converted", "done"} => ExactEther(check.value, check.wei)
  /\ check.pc = "done" =>
       (check.verdict <=> WeiWithinTwoPercent(check.claimed, check.wei))

\* a value of 102 * 10^18 + 1 wei has been checked against a claim of 100
C21_AboveTwoPower53Checked ==
  /\ check.pc = "done"
  /\ check.claimed = S100
  /\ check.wei = Wei(<<1, 0, 2>> \o [i \in 1..17 |-> 0] \o <<1>>)

\* the networks getExplorerUrl has a case for
ExplorerKnown == {ETHEREUM, BSC, SOLANA}

AskedProvider(d) ==
  /\ jobs[d].pc \in {"write", "done"}
  /\ jobs[d].reply \in AdapterReplies

\* C23: two verifyTransaction calls for the same hash that both found it
\* uncached, and so ran concurrently, return the same outcome.
C23_ConcurrentCallsAgree ==
  \A d1, d2 \in 1..Len(jobs) :
    (/\ d1 # d2
     /\ deposits[d1].transactionHash = deposits[d2].transactionHash
     /\ AskedProvider(d1)
     /\ AskedProvider(d2))
      => jobs[d1].isVerified = jobs[d2].isVerified

\* two calls for the same hash both asked the provider and have returned
C23_BothAskedProvider ==
  /\ Len(jobs) = 2
  /\ deposits[1].transactionHash = deposits[2].transactionHash
  /\ AskedProvider(1)
  /\ AskedProvider(2)

\* C24: a deposit becomes CONFIRMED, REJECTED or FAILED only in a step that
\* finds it VERIFYING, and verifyDeposit asks the provider only for a deposit
\* that is VERIFYING.
C24_TerminalOnlyFromVerifying ==
  [][/\ \A i \in Ids :
          (deposits[i].status \notin Terminal /\ deposits'[i].status \in Terminal)
            => deposits[i].status = VERIFYING
     /\ \A p \in Procs :
          (calls[p].pc = "idle" /\ calls'[p].pc = "fetch")
            => deposits[calls'[p].dep].status = VERIFYING]_vars

\* verifyDeposit has retrieved a transaction and rejected a deposit
C24_RejectedAfterRetrieval ==
  \E i \in Ids :
    /\ deposits[i].status = REJECTED
    /\ audit[i].by = "verifyDeposit"
    /\ audit[i].retrieved

\* the probe of endpoint e succeeds: its client is created and the endpoint
\* answers
ProbeSucceeds(e) ==
  clientCreated(e, endpoint.discovery) /\ endpoint.up[e]

\* C25: for a valid address, getTransactionForTon probes the endpoints in list
\* order and requests the transactions with the first endpoint whose probe
\* succeeded; when no probe succeeds it returns the 'Unable to connect to TON
\* network' error and requests no transactions.
C25_FirstWorkingEndpointOrError ==
  (endpoint.addressValid /\ endpoint.pc \in {"fetch", "done"}) =>
    /\ \A e \in endpoint.probed : \A f \in Endpoints :
         (f < e /\ clientCreated(f, endpoint.discovery)) => f \in endpoint.probed
    /\ \A e \in Endpoints :
         (ProbeSucceeds(e) /\ \A f \in Endpoints : f < e => ~ProbeSucceeds(f))
           => endpoint.fetched = e
    /\ (\A e \in Endpoints : ~ProbeSucceeds(e)) =>
         /\ endpoint.fetched = 0
         /\ endpoint.result = "Unable to connect to TON network after multiple attempts"

\* every endpoint was tried and no probe succeeded
C25_EveryProbeFailed ==
  /\ endpoint.pc = "done"
  /\ endpoint.addressValid
  /\ endpoint.probed = Endpoints
  /\ \A e \in Endpoints : ~endpoint.up[e]

\* the decimal x is exactly value / 10^decimals
ExactUnits(x, transfer) ==
  BMul(Scaled(x, Len(x.frac)), BPow10(transfer.decimals))
    = BMul(BFromDigits(transfer.value.int), BPow10(Len(x.frac)))

\* the deposits verifyDeposit resolved after retrieving a transaction that
\* carries a token transfer
ResolvedWithTransfer ==
  {i \in Ids : /\ audit[i].by = "verifyDeposit"
               /\ audit[i].retrieved
               /\ chain[audit[i].hash].transfers # <<>>}

\* C26: the actual amount verifyDeposit compares with the claimed amount is
\* the raw value of the selected token transfer divided by 10^decimals of its
\* token, on every network.
C26_ActualIsRawOverDecimals ==
  \A i \in ResolvedWithTransfer :
    ExactUnits(audit[i].actual, chain[audit[i].hash].transfers[1])

\* verifyDeposit has resolved an ETHEREUM deposit of 100 with a transfer of
\* 100 tokens of 6 decimals
C26_SixDecimalsResolved ==
  \E i \in ResolvedWithTransfer :
    /\ deposits[i].network = ETHEREUM
    /\ deposits[i].depositAmount = S100
    /\ chain[audit[i].hash].transfers[1].decimals = 6
    /\ chain[audit[i].hash].transfers[1].value = S100e6

\* C28: verifyDeposit sets a deposit to CONFIRMED only if the transfer whose
\* amount it matched was sent to the deposit's depositAddress.
C28_ConfirmedOnlyIfPaidToDepositAddress ==
  \A i \in ResolvedWithTransfer :
    (deposits[i].status = CONFIRMED /\ audit[i].status = CONFIRMED)
      => chain[audit[i].hash].transfers[1].to = deposits[i].depositAddress

\* verifyDeposit has retrieved a transaction that pays another address
C28_OtherRecipientRetrieved ==
  \E i \in ResolvedWithTransfer :
    /\ deposits[i].network = ETHEREUM
    /\ chain[audit[i].hash].transfers[1].to = OtherAddress

\* C30: verifyDeposit never confirms a deposit with a transaction whose
\* response carries no block time.
C30_NoBlockTimeNeverConfirms ==
  \A i \in Ids :
    (/\ audit[i].by = "verifyDeposit"
     /\ audit[i].retrieved
     /\ chain[audit[i].hash].ts = NoTime)
      => audit[i].status # CONFIRMED

\* verifyDeposit has resolved a deposit with a retrieved transaction without
\* block time
C30_NoBlockTimeRetrieved ==
  \E i \in Ids :
    /\ audit[i].by = "verifyDeposit"
    /\ audit[i].retrieved
    /\ chain[audit[i].hash].ts = NoTime

\* the adapter results that succeed only by the development override: the
\* transaction failed on chain, or the provider call threw
Overridden == {"failed", "error"}

\* C27: when the adapter's success comes only from the development override,
\* verifyTransaction neither returns nor caches what it returns and caches for
\* a real success, which is true.
C27_OverrideDistinguishable ==
  [][\A d \in 1..Len(jobs) :
       (/\ config.development
        /\ jobs[d].pc = "reply"
        /\ jobs'[d].pc = "write"
        /\ jobs'[d].reply \in Overridden)
         => /\ ~jobs'[d].isVerified
            /\ verifiedTransactions'[deposits[d].transactionHash] # "true"]_vars

\* in development a verifyTransaction call has returned after the provider
\* call threw
C27_OverrideReturned ==
  \E d \in 1..Len(jobs) :
    /\ config.development
    /\ jobs[d].pc = "write"
    /\ jobs[d].reply = "error"

\* C29: while the provider answers, verifyTransaction(h, amount, network)
\* returns what a check of h against that amount gives, whatever amount h was
\* checked against before: true exactly when the on-chain value is within 2%
\* of the amount of the call.
C29_OutcomeOfThisAmount ==
  \A d \in 1..Len(jobs) :
    jobs[d].pc \in {"write", "done"} =>
      (jobs[d].isVerified
         <=> WeiWithinTwoPercent(deposits[d].depositAmount,
                                 chain[deposits[d].transactionHash].native))

\* a submitted hash that no other deposit carries was answered from the
\* cache: the test route had checked it, against the amount "0"
C29_AnsweredFromTestCheck ==
  \E d \in 1..Len(jobs) :
    /\ jobs[d].pc \in {"write", "done"}
    /\ jobs[d].reply = "cached"
    /\ \A e \in 1..Len(jobs) :
         e # d => deposits[e].transactionHash # deposits[d].transactionHash

====
